---- MODULE Spec2Model ----
(***************************************************************************)
(* A model of the git-flow helper scripts of runcmd (scripts/git-flow.js   *)
(* and the command and operation modules it dispatches to).                *)
(*                                                                         *)
(* One action is one invocation of the command line tool: the handler runs *)
(* from its first line to its exit.  A handler is a sequence of steps over *)
(* a context record c that carries the repository, the trace of the        *)
(* subprocesses executed so far, the logged messages and the exit status;  *)
(* once a step has called process.exit the remaining steps leave the       *)
(* context alone.                                                          *)
(*                                                                         *)
(* Strings are sequences of one-character strings, so that prefix tests,   *)
(* regular expressions, Number() and template literals are computed and    *)
(* not assumed.                                                            *)
(***************************************************************************)
EXTENDS Integers, Sequences, FiniteSets, TLC

VARIABLES
    branches,    \* local branch names (refs/heads)
    head,        \* the checked-out branch
    tags,        \* tag names of the repository
    dirty,       \* the working tree differs from HEAD
    stash,       \* number of stash entries
    gitConfig,   \* git config: key -> value (the empty string when unset)
    versionTxt,  \* version.txt: [exists, lines]
    changelog,   \* CHANGELOG.md: [exists, lines]
    run,         \* report of the last invocation: command, options,
                 \* environment, trace, messages, exit status, state before
    runs         \* number of invocations so far

vars == <<branches, head, tags, dirty, stash, gitConfig, versionTxt, changelog,
          run, runs>>

----------------------------------------------------------------------------
(* Bounds of the model *)

\* number of invocations in one behaviour
MaxRuns == 2

----------------------------------------------------------------------------
(* Strings *)

Digits == {"0", "1", "2", "3", "4", "5", "6", "7", "8", "9"}

Letters == {"a", "b", "c", "d", "e", "f", "g", "h", "i", "j", "k", "l", "m",
            "n", "o", "p", "q", "r", "s", "t", "u", "v", "w", "x", "y", "z",
            "A", "B", "C", "D", "E", "F", "G", "H", "I", "J", "K", "L", "M",
            "N", "O", "P", "Q", "R", "S", "T", "U", "V", "W", "X", "Y", "Z"}

\* the class \w of a JavaScript regular expression
WordChars == Letters \cup Digits \cup {"_"}

Whitespace == {" ", "\t"}

EmptyStr == <<>>

StartsWith(s, p) ==
    /\ Len(p) <= Len(s)
    /\ SubSeq(s, 1, Len(p)) = p

\* String.prototype.includes
Includes(s, sub) ==
    \E i \in 0..(Len(s) - Len(sub)) : SubSeq(s, i + 1, i + Len(sub)) = sub

\* String.prototype.split(sep) for a one-character separator
RECURSIVE Split(_, _)
Split(s, sep) ==
    IF \A i \in 1..Len(s) : s[i] # sep
    THEN <<s>>
    ELSE LET i == CHOOSE j \in 1..Len(s) :
                      s[j] = sep /\ \A k \in 1..(j - 1) : s[k] # sep
         IN <<SubSeq(s, 1, i - 1)>> \o Split(SubSeq(s, i + 1, Len(s)), sep)

\* Array.prototype.join(sep) for a list of strings
RECURSIVE Join(_, _)
Join(parts, sep) ==
    IF parts = <<>> THEN EmptyStr
    ELSE IF Len(parts) = 1 THEN parts[1]
    ELSE parts[1] \o sep \o Join(Tail(parts), sep)

\* String.prototype.trim
RECURSIVE TrimLeft(_)
TrimLeft(s) ==
    IF s # <<>> /\ s[1] \in Whitespace THEN TrimLeft(Tail(s)) ELSE s

RECURSIVE TrimRight(_)
TrimRight(s) ==
    IF s # <<>> /\ s[Len(s)] \in Whitespace
    THEN TrimRight(SubSeq(s, 1, Len(s) - 1)) ELSE s

Trim(s) == TrimLeft(TrimRight(s))

DigitValue(c) ==
    CASE c = "0" -> 0 [] c = "1" -> 1 [] c = "2" -> 2 [] c = "3" -> 3
      [] c = "4" -> 4 [] c = "5" -> 5 [] c = "6" -> 6 [] c = "7" -> 7
      [] c = "8" -> 8 [] c = "9" -> 9

DigitChar(n) ==
    CASE n = 0 -> "0" [] n = 1 -> "1" [] n = 2 -> "2" [] n = 3 -> "3"
      [] n = 4 -> "4" [] n = 5 -> "5" [] n = 6 -> "6" [] n = 7 -> "7"
      [] n = 8 -> "8" [] n = 9 -> "9"

\* Number(s) is NaN when s is not a numeral
NaN == -1

RECURSIVE DecimalValue(_)
DecimalValue(s) ==
    IF s = <<>> THEN 0
    ELSE 10 * DecimalValue(SubSeq(s, 1, Len(s) - 1)) + DigitValue(s[Len(s)])

\* Number(s): the empty string is 0, a string of digits its decimal value
\* (leading zeros allowed), anything else NaN
ToNumber(s) ==
    LET t == Trim(s) IN
    IF \A i \in 1..Len(t) : t[i] \in Digits THEN DecimalValue(t) ELSE NaN

\* `${n}` for a non-negative integer
RECURSIVE NumToStr(_)
NumToStr(n) ==
    IF n < 10 THEN <<DigitChar(n)>>
    ELSE NumToStr(n \div 10) \o <<DigitChar(n % 10)>>

\* a set of strings as a list, in some order
RECURSIVE SetToSeq(_)
SetToSeq(S) ==
    IF S = {} THEN <<>>
    ELSE LET x == CHOOSE y \in S : TRUE IN <<x>> \o SetToSeq(S \ {x})

SeqToSet(q) == {q[i] : i \in 1..Len(q)}

\* the characters of branch and tag names in the order of their codes
CodeOrder == <<"-", ".", "/", "0", "1", "2", "3", "4", "5", "6", "7", "8", "9",
               "A", "B", "C", "D", "E", "F", "G", "H", "I", "J", "K", "L", "M",
               "N", "O", "P", "Q", "R", "S", "T", "U", "V", "W", "X", "Y", "Z",
               "_",
               "a", "b", "c", "d", "e", "f", "g", "h", "i", "j", "k", "l", "m",
               "n", "o", "p", "q", "r", "s", "t", "u", "v", "w", "x", "y", "z">>

CodeRank(ch) == CHOOSE i \in 1..Len(CodeOrder) : CodeOrder[i] = ch

RECURSIVE StrLess(_, _)
StrLess(a, b) ==
    IF a = <<>> THEN b # <<>>
    ELSE IF b = <<>> THEN FALSE
    ELSE IF a[1] = b[1] THEN StrLess(Tail(a), Tail(b))
    ELSE CodeRank(a[1]) < CodeRank(b[1])

\* a set of names as the list that git prints: sorted by name
RECURSIVE SortedSeq(_)
SortedSeq(S) ==
    IF S = {} THEN <<>>
    ELSE LET least == CHOOSE x \in S : \A y \in S \ {x} : StrLess(x, y)
         IN  <<least>> \o SortedSeq(S \ {least})

----------------------------------------------------------------------------
(* String literals *)

sDot == <<".">>
sSlash == <<"/">>
sV == <<"v">>
sMain == <<"m", "a", "i", "n">>
sMaster == <<"m", "a", "s", "t", "e", "r">>
sDevelop == <<"d", "e", "v", "e", "l", "o", "p">>
sFeature == <<"f", "e", "a", "t", "u", "r", "e">>
sRelease == <<"r", "e", "l", "e", "a", "s", "e">>
sHotfix == <<"h", "o", "t", "f", "i", "x">>
sSupport == <<"s", "u", "p", "p", "o", "r", "t">>
sStart == <<"s", "t", "a", "r", "t">>
sFinish == <<"f", "i", "n", "i", "s", "h">>
sMajor == <<"m", "a", "j", "o", "r">>
sMinor == <<"m", "i", "n", "o", "r">>
sPatch == <<"p", "a", "t", "c", "h">>
sBuild == <<"b", "u", "i", "l", "d">>
sNextRelease == <<"n", "e", "x", "t", "R", "e", "l", "e", "a", "s", "e">>
sOrigin == <<"o", "r", "i", "g", "i", "n">>
sMasterKey == <<"g", "i", "t", "f", "l", "o", "w", ".", "b", "r", "a", "n", "c", "h",
                ".", "m", "a", "s", "t", "e", "r">>
sDevelopKey == <<"g", "i", "t", "f", "l", "o", "w", ".", "b", "r", "a", "n", "c", "h",
                 ".", "d", "e", "v", "e", "l", "o", "p">>
sHeading == <<"#", "#", " ", "v">>
sInternal == <<"-", " ", "I", "n", "t", "e", "r", "n", "a", "l", " ",
               "c", "h", "a", "n", "g", "e", "s">>
sNoLocalChanges == <<"N", "o", " ", "l", "o", "c", "a", "l", " ",
                     "c", "h", "a", "n", "g", "e", "s">>
sSaved == <<"S", "a", "v", "e", "d">>
sModified == <<"M", " ", "f">>

----------------------------------------------------------------------------
(* lib/version.js *)

UpperCase == <<"A", "B", "C", "D", "E", "F", "G", "H", "I", "J", "K", "L", "M",
               "N", "O", "P", "Q", "R", "S", "T", "U", "V", "W", "X", "Y", "Z">>
LowerCase == <<"a", "b", "c", "d", "e", "f", "g", "h", "i", "j", "k", "l", "m",
               "n", "o", "p", "q", "r", "s", "t", "u", "v", "w", "x", "y", "z">>

ToLowerChar(ch) ==
    IF \E i \in 1..Len(UpperCase) : UpperCase[i] = ch
    THEN LowerCase[CHOOSE i \in 1..Len(UpperCase) : UpperCase[i] = ch]
    ELSE ch

ToLowerCase(s) == [i \in 1..Len(s) |-> ToLowerChar(s[i])]

\* one segment of the canonical pattern: 0|[1-9]\d*
IsNumeral(seg) ==
    /\ seg # <<>>
    /\ \A i \in 1..Len(seg) : seg[i] \in Digits
    /\ (seg[1] = "0" => Len(seg) = 1)

validateVersion(version) ==
    LET segs == Split(version, ".") IN
    /\ Len(segs) = 3
    /\ \A i \in 1..3 : IsNumeral(segs[i])

\* version.split(".").map(Number); a missing element is undefined
VersionPart(version, i) ==
    LET segs == Split(version, ".") IN
    IF i <= Len(segs) THEN ToNumber(segs[i]) ELSE NaN

parseVersion(version) ==
    [major |-> VersionPart(version, 1),
     minor |-> VersionPart(version, 2),
     patch |-> VersionPart(version, 3)]

\* `${n}` of a number that may be NaN
NumText(n) == IF n = NaN THEN <<"N", "a", "N">> ELSE NumToStr(n)

\* a minor bump that keeps the patch number; C26 does not hold of it
incrementKeepsPatch(version, bump) ==
    LET p == parseVersion(version)
        kind == ToLowerCase(bump)
    IN  IF kind = sMajor
          THEN NumText(p.major + 1) \o sDot \o <<"0">> \o sDot \o <<"0">>
        ELSE IF kind = sMinor
          THEN NumText(p.major) \o sDot \o NumText(p.minor + 1) \o sDot \o NumText(p.patch)
        ELSE IF kind = sPatch
          THEN NumText(p.major) \o sDot \o NumText(p.minor) \o sDot \o NumText(p.patch + 1)
        ELSE version

\* an unknown kind taken as patch; C28 does not hold of it
incrementDefaultsToPatch(version, bump) ==
    LET p == parseVersion(version)
        kind == ToLowerCase(bump)
    IN  IF kind = sMajor
          THEN NumText(p.major + 1) \o sDot \o <<"0">> \o sDot \o <<"0">>
        ELSE IF kind = sMinor
          THEN NumText(p.major) \o sDot \o NumText(p.minor + 1) \o sDot \o <<"0">>
        ELSE NumText(p.major) \o sDot \o NumText(p.minor) \o sDot \o NumText(p.patch + 1)

incrementVersion(version, bump) ==
    LET p == parseVersion(version)
        kind == ToLowerCase(bump)
        inc(n) == IF n = NaN THEN NaN ELSE n + 1
    IN  IF kind = sMajor
          THEN NumText(inc(p.major)) \o sDot \o <<"0">> \o sDot \o <<"0">>
        ELSE IF kind = sMinor
          THEN NumText(p.major) \o sDot \o NumText(inc(p.minor)) \o sDot \o <<"0">>
        ELSE IF kind = sPatch
          THEN NumText(p.major) \o sDot \o NumText(p.minor) \o sDot \o NumText(inc(p.patch))
        ELSE version

\* a comparison with NaN is false
NumGt(x, y) == x # NaN /\ y # NaN /\ x > y

RECURSIVE CompareFrom(_, _, _)
CompareFrom(a, b, i) ==
    IF i > 3 THEN 0
    ELSE IF NumGt(VersionPart(a, i), VersionPart(b, i)) THEN 1
    ELSE IF NumGt(VersionPart(b, i), VersionPart(a, i)) THEN -1
    ELSE CompareFrom(a, b, i + 1)

\* a comparison that stops after the major number; C5 does not hold of it
compareMajorOnly(a, b) ==
    IF NumGt(VersionPart(a, 1), VersionPart(b, 1)) THEN 1
    ELSE IF NumGt(VersionPart(b, 1), VersionPart(a, 1)) THEN -1
    ELSE 0

\* a comparison of the texts, character by character; C25 does not hold of it
compareAsText(a, b) == IF StrLess(b, a) THEN 1 ELSE IF StrLess(a, b) THEN -1 ELSE 0

compareVersions(a, b) == CompareFrom(a, b, 1)

\* content.trim().split("\n")[0].trim() of a file held as its lines
IsBlank(line) == \A i \in 1..Len(line) : line[i] \in Whitespace

FirstLineTrimmed(lines) ==
    IF \A i \in 1..Len(lines) : IsBlank(lines[i]) THEN EmptyStr
    ELSE Trim(lines[CHOOSE i \in 1..Len(lines) :
                        ~IsBlank(lines[i]) /\ \A k \in 1..(i - 1) : IsBlank(lines[k])])

----------------------------------------------------------------------------
(* The context of a run *)

NoRet == [isNull |-> FALSE, out |-> <<>>]
NullRet == [isNull |-> TRUE, out |-> <<>>]

Repo == [branches |-> branches, head |-> head, tags |-> tags, dirty |-> dirty,
         stash |-> stash, gitConfig |-> gitConfig, versionTxt |-> versionTxt,
         changelog |-> changelog]

\* the context at the start of a run
Begin == [repo |-> Repo, trace |-> <<>>, msgs |-> <<>>, status |-> "run",
          err |-> "none", ret |-> NoRet,
          current |-> EmptyStr,   \* const currentVersion
          version |-> EmptyStr,   \* const newVersion
          changed |-> {},         \* versionChanged, changelogChanged
          base |-> EmptyStr,      \* const base of handleSync
          original |-> EmptyStr,  \* const original
          stashed |-> FALSE,      \* stash && !stash.includes("No local changes")
          target |-> EmptyStr,    \* const targetBranch
          menu |-> <<>>,          \* const candidates
          shown |-> <<>>,         \* the numbered list written to the terminal
          operations |-> <<>>,    \* const operations of release-finalize.js
          summary |-> <<>>]       \* the JSON summaries written to stdout

Live(c) == c.status = "run"

\* logError(..) followed by process.exit(1)
Fatal(c, err) ==
    IF Live(c) THEN [c EXCEPT !.status = "exit1", !.err = err] ELSE c

\* return from the handler: the process ends with status 0
Done(c) == IF Live(c) THEN [c EXCEPT !.status = "exit0"] ELSE c

Log(c, msg) == IF Live(c) THEN [c EXCEPT !.msgs = Append(@, msg)] ELSE c

\* one statement after another: the first has returned before the next runs
Then(c, rest(_)) == CHOOSE r \in {rest(done) : done \in {c}} : TRUE

Cmd(verb, args) == [verb |-> verb, args |-> args, flags |-> {}]
CmdF(verb, args, flags) == [verb |-> verb, args |-> args, flags |-> flags]

ConfigKeys == {sMasterKey, sDevelopKey}

Initialized(r) == r.gitConfig[sMasterKey] # EmptyStr

FullName(type, name) == type \o sSlash \o name

DefaultBaseOfTool(r, type) ==
    IF type \in {sHotfix, sSupport} THEN r.gitConfig[sMasterKey] ELSE r.gitConfig[sDevelopKey]

----------------------------------------------------------------------------
(* What the subprocess does: execSync(cmd) of runGit and runGitFlow.       *)
(* The result is [ok, out, repo]: exit status zero, the lines of the       *)
(* output, and the repository afterwards.                                  *)

Ok(r, out) == [ok |-> TRUE, out |-> out, repo |-> r]

\* one line of git branch --list: the current branch is marked with a star
BranchLine(r, b) == (IF b = r.head THEN <<"*", " ">> ELSE <<" ", " ">>) \o b

BranchListing(r, prefix) ==
    LET names == SortedSeq({b \in r.branches : StartsWith(b, prefix)})
        listed == [i \in 1..Len(names) |-> BranchLine(r, names[i])]
    IN  IF listed = <<>> THEN <<>> ELSE listed \o <<EmptyStr>>

Failed(r) == [ok |-> FALSE, out |-> <<>>, repo |-> r]

GitExec(r, cmd, env) ==
    LET v == cmd.verb
        a == cmd.args
    IN
    CASE v = "status" -> Ok(r, IF r.dirty THEN <<sModified>> ELSE <<>>)
      [] v = "show-ref" -> IF a[1] \in r.branches THEN Ok(r, <<>>) ELSE Failed(r)
      [] v = "ls-remote" -> IF a[2] \in env.remoteHeads THEN Ok(r, <<a[2]>>) ELSE Failed(r)
      [] v = "rev-parse-head" -> Ok(r, <<r.head>>)
      [] v = "tag-l" -> Ok(r, SetToSeq(r.tags))
      [] v = "checkout" ->
            IF a[1] \in r.branches THEN Ok([r EXCEPT !.head = a[1]], <<>>) ELSE Failed(r)
      [] v = "pull" -> IF env.remoteOk THEN Ok(r, <<>>) ELSE Failed(r)
      [] v = "push" -> IF env.remoteOk THEN Ok(r, <<>>) ELSE Failed(r)
      [] v = "merge" ->
            IF env.toolOk /\ a[1] \in r.branches THEN Ok(r, <<>>) ELSE Failed(r)
      [] v = "branch-D" ->
            IF a[1] \in r.branches /\ a[1] # r.head
            THEN Ok([r EXCEPT !.branches = @ \ {a[1]}], <<>>) ELSE Failed(r)
      [] v = "stash-push" ->
            IF r.dirty
            THEN Ok([r EXCEPT !.dirty = FALSE, !.stash = @ + 1], <<sSaved>>)
            ELSE Ok(r, <<sNoLocalChanges>>)
      [] v = "stash-pop" ->
            IF r.stash > 0
            THEN Ok([r EXCEPT !.dirty = TRUE, !.stash = @ - 1], <<>>) ELSE Failed(r)
      [] v = "config-get" ->
            IF a[1] \in ConfigKeys /\ r.gitConfig[a[1]] # EmptyStr
            THEN Ok(r, <<r.gitConfig[a[1]]>>) ELSE Failed(r)
      [] v = "config-set" ->
            IF a[1] \in ConfigKeys
            THEN Ok([r EXCEPT !.gitConfig[a[1]] = a[2]], <<>>) ELSE Ok(r, <<>>)
      [] v = "add" -> Ok(r, <<>>)
      [] v = "commit" ->
            IF r.dirty THEN Ok([r EXCEPT !.dirty = FALSE], <<>>) ELSE Failed(r)
      [] v = "show-version" ->
            IF r.versionTxt.exists THEN Ok(r, r.versionTxt.lines) ELSE Failed(r)
      [] v = "write-tree" -> Ok(r, <<>>)
      [] v = "describe" ->
            IF r.tags # {} THEN Ok(r, <<CHOOSE t \in r.tags : TRUE>>) ELSE Failed(r)
      [] v = "log" -> Ok(r, env.commits)
      [] v = "branch-list" -> Ok(r, BranchListing(r, a[1]))
      [] v = "tag-a" ->
            IF a[1] \notin r.tags THEN Ok([r EXCEPT !.tags = @ \cup {a[1]}], <<>>)
            ELSE Failed(r)
      [] v = "push-delete" -> IF env.remoteOk THEN Ok(r, <<>>) ELSE Failed(r)
      [] v = "flow-version" -> IF env.gfAvail THEN Ok(r, <<sV>>) ELSE Failed(r)
      [] v = "flow-init" ->
            IF env.toolOk
            THEN Ok([r EXCEPT !.gitConfig =
                         [k \in ConfigKeys |->
                             IF k = sMasterKey
                             THEN (IF sMaster \in r.branches /\ sMain \notin r.branches
                                   THEN sMaster ELSE sMain)
                             ELSE sDevelop],
                       !.branches = @ \cup {sDevelop}], <<>>)
            ELSE Failed(r)
      [] v = "flow-config" -> IF Initialized(r) THEN Ok(r, <<sMain>>) ELSE Failed(r)
      [] v = "flow-start" ->
            LET b == FullName(a[1], a[2])
                base == IF a[3] # EmptyStr THEN a[3] ELSE DefaultBaseOfTool(r, a[1])
            IN  IF /\ env.toolOk /\ Initialized(r) /\ ~r.dirty
                   /\ b \notin r.branches /\ base \in r.branches
                THEN Ok([r EXCEPT !.branches = @ \cup {b}, !.head = b], <<>>)
                ELSE Failed(r)
      [] v = "flow-finish" ->
            LET b == FullName(a[1], a[2])
                tagged == a[1] \in {sRelease, sHotfix}
                tag == IF a[3] # EmptyStr THEN a[3] ELSE a[2]
            IN  IF /\ env.toolOk /\ Initialized(r) /\ ~r.dirty
                   /\ b \in r.branches
                   /\ (tagged => tag \notin r.tags)
                   /\ ("-p" \in cmd.flags => env.remoteOk)
                THEN Ok([r EXCEPT !.branches = @ \ {b},
                                  !.tags = IF tagged THEN @ \cup {tag} ELSE @,
                                  !.head = IF sDevelop \in r.branches
                                           THEN sDevelop ELSE sMain], <<>>)
                ELSE Failed(r)
      [] v = "flow-publish" ->
            IF env.toolOk /\ env.remoteOk /\ FullName(a[1], a[2]) \in r.branches
            THEN Ok(r, <<>>) ELSE Failed(r)
      [] v = "flow-track" ->
            LET b == FullName(a[1], a[2]) IN
            IF env.toolOk /\ env.remoteOk /\ b \notin r.branches
            THEN Ok([r EXCEPT !.branches = @ \cup {b}, !.head = b], <<>>)
            ELSE Failed(r)
      [] v = "flow-delete" ->
            LET b == FullName(a[1], a[2]) IN
            IF env.toolOk /\ b \in r.branches /\ b # r.head
            THEN Ok([r EXCEPT !.branches = @ \ {b}], <<>>) ELSE Failed(r)
      [] OTHER -> Failed(r)

----------------------------------------------------------------------------
(* Git/Workflow adapter: scripts/git-flow.js *)

\* what the handlers pass as the options of runGit / runGitFlow
Mode(allowFail, dryRun) == [allowFail |-> allowFail, dryRun |-> dryRun]

RECURSIVE DropBlankHead(_)
DropBlankHead(lines) ==
    IF lines # <<>> /\ IsBlank(lines[1]) THEN DropBlankHead(Tail(lines)) ELSE lines

RECURSIVE DropBlankTail(_)
DropBlankTail(lines) ==
    IF lines # <<>> /\ IsBlank(lines[Len(lines)])
    THEN DropBlankTail(SubSeq(lines, 1, Len(lines) - 1)) ELSE lines

\* an adapter that hands the output on as the subprocess wrote it; C21 does
\* not hold of it
RawOutput(lines) == lines

\* execSync(cmd, ..).trim() on a text held as lines
TrimOutput(lines) ==
    LET kept == DropBlankTail(DropBlankHead(lines)) IN
    IF kept = <<>> THEN <<>>
    ELSE IF Len(kept) = 1 THEN <<Trim(kept[1])>>
    ELSE <<TrimLeft(kept[1])>> \o SubSeq(kept, 2, Len(kept) - 1)
         \o <<TrimRight(kept[Len(kept)])>>

\* the try/catch around execSync: res is what the subprocess did
Executed(c, cmd, mode, res) ==
    IF res.ok
    THEN [c EXCEPT !.repo = res.repo, !.trace = Append(@, cmd),
                   !.ret = [isNull |-> FALSE, out |-> TrimOutput(res.out)]]
    ELSE IF mode.allowFail
    THEN [c EXCEPT !.repo = res.repo, !.trace = Append(@, cmd), !.ret = NullRet]
    ELSE [c EXCEPT !.repo = res.repo, !.trace = Append(@, cmd), !.ret = NullRet,
                   !.status = "exit1", !.err = "SubprocessFailure"]

runGit(c, cmd, mode, env) ==
    IF ~Live(c) THEN c
    ELSE IF mode.dryRun
    THEN [c EXCEPT !.msgs = Append(@, [kind |-> "dry-run", text |-> cmd.verb]),
                   !.ret = NoRet]
    ELSE Executed(c, cmd, mode, GitExec(c.repo, cmd, env))

\* a runGitFlow without the dry-run branch; C10 does not hold of it
runGitFlowEager(c, cmd, mode, env) ==
    IF ~Live(c) THEN c ELSE Executed(c, cmd, mode, GitExec(c.repo, cmd, env))

runGitFlow(c, cmd, mode, env) ==
    IF ~Live(c) THEN c
    ELSE IF mode.dryRun
    THEN [c EXCEPT !.msgs = Append(@, [kind |-> "dry-run", text |-> cmd.verb]),
                   !.ret = NoRet]
    ELSE Executed(c, cmd, mode, GitExec(c.repo, cmd, env))

\* JavaScript truthiness of a returned string
Truthy(ret) == ~ret.isNull /\ ret.out # <<>>

\* if (cond) { logError(..); process.exit(1) }
FatalIf(c, cond, err) == IF Live(c) /\ cond THEN Fatal(c, err) ELSE c

LogIf(c, cond, msg) == IF cond THEN Log(c, msg) ELSE c

CleanTreeVerdict(c) == FatalIf(c, Truthy(c.ret), "DirtyTree")

ensureCleanTree(c, env) ==
    CleanTreeVerdict(runGit(c, Cmd("status", <<>>), Mode(TRUE, FALSE), env))

BranchExistsVerdict(c) == FatalIf(c, c.ret.isNull, "BranchNotFound")

\* a lookup whose result is not looked at; C13 does not hold of it
ensureBranchExistsLax(c, name, env) ==
    runGit(c, Cmd("show-ref", <<name>>), Mode(TRUE, FALSE), env)

ensureBranchExists(c, name, env) ==
    BranchExistsVerdict(runGit(c, Cmd("show-ref", <<name>>), Mode(TRUE, FALSE), env))

BranchMissingVerdict(c) == FatalIf(c, ~c.ret.isNull, "BranchAlreadyExists")

\* a check that looks the branch up and accepts what it finds; C11 does not
\* hold of it
ensureBranchMissingLax(c, name, env) ==
    runGit(c, Cmd("show-ref", <<name>>), Mode(TRUE, FALSE), env)

ensureBranchMissing(c, name, env) ==
    BranchMissingVerdict(runGit(c, Cmd("show-ref", <<name>>), Mode(TRUE, FALSE), env))

checkout(c, branch, mode, env) == runGit(c, Cmd("checkout", <<branch>>), mode, env)

pullBranch(c, branch, dryRun, offline, env) ==
    IF offline THEN c
    ELSE runGit(checkout(c, branch, Mode(FALSE, dryRun), env),
                Cmd("pull", <<branch>>), Mode(TRUE, dryRun), env)

\* tag.replace(/^v/, "")
StripV(tag) == IF StartsWith(tag, sV) THEN Tail(tag) ELSE tag

TagNameChecked(version) == IF StartsWith(version, sV) THEN version ELSE sV \o version

\* (runGit("tag -l") || "").split("\n")
TagLines(ret) ==
    IF ret.isNull \/ ret.out = <<>> THEN {EmptyStr} ELSE SeqToSet(ret.out)

TagMissingVerdict(c, version) ==
    FatalIf(c, TagNameChecked(version) \in TagLines(c.ret), "DuplicateTag")

ensureTagMissing(c, version, env) ==
    TagMissingVerdict(runGit(c, Cmd("tag-l", <<>>), Mode(TRUE, FALSE), env), version)

\* a pattern that accepts every non-empty name; C9 does not hold of it
MatchesAnyName(name) == name # <<>>

\* /^[\w-]+$/.test(name)
MatchesNamePattern(name) ==
    /\ name # <<>>
    /\ \A i \in 1..Len(name) : name[i] \in WordChars \cup {"-"}

BranchTypes == {sFeature, sRelease, sHotfix, sSupport}

validateBranchName(name, type) ==
    /\ type \in BranchTypes
    /\ MatchesNamePattern(name)

InitializedVerdict(c) == FatalIf(c, ~Truthy(c.ret), "NotInitialized")

ensureGitFlowInitialized(c, env) ==
    InitializedVerdict(runGit(c, Cmd("config-get", <<sMasterKey>>), Mode(TRUE, FALSE), env))

AvailableVerdict(c) == FatalIf(c, c.ret.isNull, "GitFlowMissing")

\* ensureGitFlowAvailable({...opts, autoInstall: false}) followed by the
\* caller's `if (!available) { logError(..); process.exit(1) }`
ensureGitFlowAvailable(c, opts, env) ==
    AvailableVerdict(runGit(c, Cmd("flow-version", <<>>), Mode(TRUE, opts.dryRun), env))

\* the first lines of every command handler, in a process that is at c
PreambleOf(c, opts, env) ==
    ensureGitFlowInitialized(ensureGitFlowAvailable(c, opts, env), env)

\* the same as the first thing that the process does
Preamble(opts, env) == PreambleOf(Begin, opts, env)

RequireTypeAndName(c, opts) ==
    FatalIf(c, opts.type = EmptyStr \/ opts.name = EmptyStr, "MissingArgument")

----------------------------------------------------------------------------
(* commands/start.js *)

MainOrDevelop(type) == IF type \in {sHotfix, sSupport} THEN sMain ELSE sDevelop

StartBase(opts) == IF opts.base # EmptyStr THEN opts.base ELSE MainOrDevelop(opts.type)

StartFetch(c, opts, env) ==
    IF opts.fetch /\ ~opts.offline
    THEN pullBranch(Log(c, [kind |-> "info", text |-> "Fetching"]),
                    StartBase(opts), opts.dryRun, opts.offline, env)
    ELSE c

\* start.js does not import runGit: the call in the force branch throws a
\* ReferenceError, which main() reports before process.exit(1)
StartForceOrMissing(c, opts, env) ==
    IF opts.force
    THEN Fatal(Log(c, [kind |-> "warn", text |-> "Force mode"]), "UnexpectedError")
    ELSE ensureBranchMissing(c, FullName(opts.type, opts.name), env)

handleStart(opts, env) ==
    LET c3 == ensureCleanTree(Preamble(opts, env), env)
        c4 == RequireTypeAndName(c3, opts)
        c5 == FatalIf(c4, ~validateBranchName(opts.name, opts.type), "InvalidBranchName")
        c6 == runGitFlow(c5, Cmd("flow-config", <<>>), Mode(TRUE, FALSE), env)
        c7 == ensureBranchExists(c6, StartBase(opts), env)
        c8 == StartFetch(c7, opts, env)
        c9 == StartForceOrMissing(c8, opts, env)
        c10 == runGitFlow(c9, Cmd("flow-start", <<opts.type, opts.name, opts.base>>),
                          Mode(FALSE, opts.dryRun), env)
    IN  Done(Log(c10, [kind |-> "success", text |-> "branch started"]))

----------------------------------------------------------------------------
(* commands/finish.js *)

FinishFlags(opts) ==
    (IF opts.push /\ ~opts.offline THEN {"-p"} ELSE {})
    \cup (IF opts.squash THEN {"--squash"} ELSE {})
    \cup (IF opts.tag # EmptyStr THEN {"-T"} ELSE {})
    \cup (IF opts.message # EmptyStr THEN {"-m"} ELSE {})

FinishTagCheck(c, opts, env) ==
    IF opts.tag # EmptyStr THEN ensureTagMissing(c, StripV(opts.tag), env) ELSE c

FinishPull(c, opts, env) ==
    IF ~opts.offline
    THEN pullBranch(
             ensureBranchExists(
                 pullBranch(Log(c, [kind |-> "info", text |-> "Pulling"]),
                            FullName(opts.type, opts.name),
                            opts.dryRun, opts.offline, env),
                 MainOrDevelop(opts.type), env),
             MainOrDevelop(opts.type), opts.dryRun, opts.offline, env)
    ELSE c

FinishCleanup(c, opts, env) ==
    IF ~opts.keepBranch /\ ~opts.dryRun
    THEN runGit(Log(c, [kind |-> "info", text |-> "Deleting branch"]),
                Cmd("branch-D", <<FullName(opts.type, opts.name)>>),
                Mode(TRUE, FALSE), env)
    ELSE LogIf(c, opts.keepBranch, [kind |-> "info", text |-> "Keeping branch"])

\* a finish that asks for neither a tag nor a message; C7 does not hold of it
FinishRequiresNothing(c, opts) == c

FinishRequiresTag(c, opts) ==
    FatalIf(c, /\ opts.type \in {sRelease, sHotfix}
               /\ (opts.tag = EmptyStr \/ opts.message = EmptyStr),
            "MissingRequiredOption")

handleFinish(opts, env) ==
    LET c3 == ensureCleanTree(Preamble(opts, env), env)
        c4 == RequireTypeAndName(c3, opts)
        c5 == ensureBranchExists(c4, FullName(opts.type, opts.name), env)
        c6 == FinishRequiresTag(c5, opts)
        c7 == FinishTagCheck(c6, opts, env)
        c8 == FinishPull(c7, opts, env)
        c9 == runGitFlow(c8, CmdF("flow-finish",
                                  <<opts.type, opts.name, opts.tag, opts.message>>,
                                  FinishFlags(opts)),
                         Mode(FALSE, opts.dryRun), env)
        c10 == Log(c9, [kind |-> "success", text |-> "branch finalized"])
        c11 == LogIf(c10, opts.push /\ opts.offline,
                     [kind |-> "warn", text |-> "--push ignored in offline mode"])
        c12 == FinishCleanup(c11, opts, env)
        c13 == LogIf(c12, opts.tag # EmptyStr, [kind |-> "success", text |-> "Created tag"])
    IN  Done(c13)

----------------------------------------------------------------------------
(* commands/publish.js, commands/track.js, commands/delete.js *)

handlePublish(opts, env) ==
    LET c3 == RequireTypeAndName(Preamble(opts, env), opts)
        c4 == ensureBranchExists(c3, FullName(opts.type, opts.name), env)
        c5 == runGitFlow(c4, Cmd("flow-publish", <<opts.type, opts.name>>),
                         Mode(FALSE, opts.dryRun), env)
    IN  Done(Log(c5, [kind |-> "success", text |-> "branch published"]))

handleTrack(opts, env) ==
    LET c3 == RequireTypeAndName(Preamble(opts, env), opts)
        c4 == runGitFlow(c3, Cmd("flow-track", <<opts.type, opts.name>>),
                         Mode(FALSE, opts.dryRun), env)
    IN  Done(Log(c4, [kind |-> "success", text |-> "branch tracked"]))

handleDelete(opts, env) ==
    LET c3 == RequireTypeAndName(Preamble(opts, env), opts)
        c4 == ensureBranchExists(c3, FullName(opts.type, opts.name), env)
        c5 == runGitFlow(c4, Cmd("flow-delete", <<opts.type, opts.name>>),
                         Mode(FALSE, opts.dryRun), env)
        c6 == LogIf(c5, opts.force, [kind |-> "warn", text |-> "Force delete"])
    IN  Done(Log(c6, [kind |-> "success", text |-> "branch deleted"]))

----------------------------------------------------------------------------
(* lib/version.js readVersion, lib/changelog.js, lib/prompts.js *)

readVersion(c) ==
    IF ~Live(c) THEN c
    ELSE IF ~c.repo.versionTxt.exists THEN Fatal(c, "MissingVersionFile")
    ELSE IF ~validateVersion(FirstLineTrimmed(c.repo.versionTxt.lines))
    THEN Fatal(c, "InvalidVersionFormat")
    ELSE [c EXCEPT !.current = FirstLineTrimmed(c.repo.versionTxt.lines)]

\* the file as read by appendChangelog: "" when it does not exist
ExistingChangelog(r) == IF r.changelog.exists THEN r.changelog.lines ELSE <<EmptyStr>>

\* text.includes(sub) for a text held as lines and a sub without a newline
HasLine(lines, sub) == \E i \in 1..Len(lines) : Includes(lines[i], sub)

\* existing.includes(`## v${version}`)
HasHeading(lines, version) == HasLine(lines, sHeading \o version)

sDateSep == <<" ", "-", " ">>

\* a section put below the existing content; C20 does not hold of it
NextChangelogBelow(existing, version, date, commits) ==
    existing
    \o <<sHeading \o version \o sDateSep \o date>>
    \o (IF commits # <<>> THEN commits ELSE <<sInternal>>)

\* sectionLines.join("\n") + existing, as lines
NextChangelog(existing, version, date, commits) ==
    <<sHeading \o version \o sDateSep \o date>>
    \o (IF commits # <<>> THEN commits ELSE <<sInternal>>)
    \o existing

\* commits.split("\n").filter(Boolean) of the output of git log
CommitLines(ret) ==
    IF ~Truthy(ret) THEN <<>> ELSE SelectSeq(ret.out, LAMBDA l : l # EmptyStr)

\* after getLastTag() and collectCommitsSince(): c.ret is the output of git log
ChangelogWrite(c, version, opts, env) ==
    IF ~Live(c) THEN c
    ELSE IF opts.dryRun
    THEN Log(c, [kind |-> "dry-run", text |-> "would update CHANGELOG.md"])
    ELSE [c EXCEPT
            !.repo.changelog =
                [exists |-> TRUE,
                 lines |-> NextChangelog(ExistingChangelog(c.repo), version,
                                         env.today, CommitLines(c.ret))],
            !.repo.dirty = TRUE,
            !.trace = Append(@, Cmd("write-changelog", <<version>>)),
            !.changed = @ \cup {"changelog"}]

LastTagRange(c) == IF Truthy(c.ret) THEN c.ret.out ELSE <<>>

CollectCommits(c, env) == runGit(c, Cmd("log", LastTagRange(c)), Mode(TRUE, FALSE), env)

\* an append that does not look for the heading; C19 does not hold of it
appendChangelogAgain(c, version, opts, env) ==
    IF ~Live(c) THEN c
    ELSE ChangelogWrite(
             CollectCommits(runGit(c, Cmd("describe", <<>>), Mode(TRUE, FALSE), env), env),
             version, opts, env)

appendChangelog(c, version, opts, env) ==
    IF ~Live(c) THEN c
    ELSE IF HasHeading(ExistingChangelog(c.repo), version)
    THEN Log(c, [kind |-> "info", text |-> "Changelog already contains this version"])
    ELSE ChangelogWrite(
             CollectCommits(runGit(c, Cmd("describe", <<>>), Mode(TRUE, FALSE), env), env),
             version, opts, env)

commitChangelog(c, version, opts, env) ==
    runGit(runGit(c, Cmd("add", <<>>), Mode(FALSE, opts.dryRun), env),
           Cmd("commit", <<version>>), Mode(FALSE, opts.dryRun), env)

\* promptText: a blocking read of standard input
promptText(c) == [c EXCEPT !.trace = Append(@, Cmd("prompt", <<>>))]

----------------------------------------------------------------------------
(* operations/release.js *)

Accepts(answer) == answer = EmptyStr \/ StartsWith(ToLowerCase(answer), <<"y">>)

PromptCustom(c, env) ==
    IF ~validateVersion(env.custom) THEN Fatal(c, "InvalidVersionFormat")
    ELSE [c EXCEPT !.version = env.custom]

PromptAnswer(c, bumped, env) ==
    IF Accepts(env.answer) THEN [c EXCEPT !.version = bumped]
    ELSE PromptCustom(promptText(c), env)

\* a resolution that does not read --version; C6 does not hold of it
promptBumpOnly(c, opts, bump, env) ==
    IF ~Live(c) THEN c
    ELSE IF opts.yes THEN [c EXCEPT !.version = incrementVersion(c.current, bump)]
    ELSE PromptAnswer(promptText(c), incrementVersion(c.current, bump), env)

promptVersion(c, opts, bump, env) ==
    IF ~Live(c) THEN c
    ELSE IF opts.version # EmptyStr
    THEN (IF ~validateVersion(opts.version) THEN Fatal(c, "InvalidVersionFormat")
          ELSE [c EXCEPT !.version = opts.version])
    ELSE IF opts.yes THEN [c EXCEPT !.version = incrementVersion(c.current, bump)]
    ELSE PromptAnswer(promptText(c), incrementVersion(c.current, bump), env)

OrDefault(s, default) == IF s # EmptyStr THEN s ELSE default

\* name ? (name.startsWith('v') ? name : `v${name}`) : fallback
VName(name, fallback) ==
    IF name # EmptyStr THEN (IF StartsWith(name, sV) THEN name ELSE sV \o name)
    ELSE fallback

CheckResolved(c) ==
    FatalIf(FatalIf(c, ~validateVersion(c.version), "InvalidVersionFormat"),
            compareVersions(c.version, c.current) < 0, "VersionRegression")

\* a write of the version alone, without the lines that follow; C30 does
\* not hold of it
updateVersionFileAlone(c, opts) ==
    IF ~Live(c) THEN c
    ELSE IF ~c.repo.versionTxt.exists THEN Fatal(c, "MissingVersionFile")
    ELSE IF opts.dryRun
    THEN Log(c, [kind |-> "dry-run", text |-> "would write version.txt"])
    ELSE [c EXCEPT
            !.repo.versionTxt.lines = <<c.version>>,
            !.repo.dirty = TRUE,
            !.trace = Append(@, Cmd("write-version", <<c.version>>)),
            !.changed = @ \cup {"version"}]

updateVersionFile(c, opts) ==
    IF ~Live(c) THEN c
    ELSE IF ~c.repo.versionTxt.exists THEN Fatal(c, "MissingVersionFile")
    ELSE IF opts.dryRun
    THEN Log(c, [kind |-> "dry-run", text |-> "would write version.txt"])
    ELSE [c EXCEPT
            !.repo.versionTxt.lines = [@ EXCEPT ![1] = c.version],
            !.repo.dirty = @ \/ c.repo.versionTxt.lines[1] # c.version,
            !.trace = Append(@, Cmd("write-version", <<c.version>>)),
            !.changed = @ \cup {"version"}]

commitChanges(c, opts, env) ==
    runGit(runGit(c, Cmd("add", <<>>), Mode(FALSE, opts.dryRun), env),
           Cmd("commit", <<c.version>>), Mode(FALSE, opts.dryRun), env)

StartPull(c, base, opts, env) ==
    IF ~opts.offline THEN pullBranch(c, base, opts.dryRun, opts.offline, env) ELSE c

StartPush(c, branch, opts, env) ==
    IF opts.push
    THEN Log(runGit(c, Cmd("push", <<branch>>), Mode(FALSE, opts.dryRun), env),
             [kind |-> "success", text |-> "Pushed"])
    ELSE c

StartSummary(c, opts) ==
    IF opts.dryRun
    THEN Log(c, [kind |-> "warn", text |-> "Dry-run completed. No changes were applied."])
    ELSE LogIf(c, c.changed = {},
               [kind |-> "warn", text |-> "No files were changed (version/changelog)"])

ReleaseBranch(c, opts) == FullName(sRelease, VName(opts.name, sV \o c.version))

ReleaseCreate(c, opts, env) ==
    runGitFlow(
        StartPull(ensureBranchMissing(c, ReleaseBranch(c, opts), env),
                  OrDefault(opts.base, sDevelop), opts, env),
        Cmd("flow-start", <<sRelease, VName(opts.name, sV \o c.version),
                            OrDefault(opts.base, sDevelop)>>),
        Mode(FALSE, opts.dryRun), env)

ReleaseChangelog(c, opts, env) ==
    IF ~opts.noChangelog THEN appendChangelog(c, c.version, opts, env) ELSE c

ReleasePush(c, opts, env) == StartPush(c, ReleaseBranch(c, opts), opts, env)

handleReleaseStart(c, opts, env) ==
    LET c1 == ensureBranchExists(ensureCleanTree(c, env), sDevelop, env)
        c2 == promptVersion(readVersion(c1), opts, OrDefault(opts.bump, sMinor), env)
        c3 == ReleaseCreate(CheckResolved(c2), opts, env)
    IN  Then(c3, LAMBDA started :
            LET c4 == Log(started, [kind |-> "success", text |-> "Release branch started"])
                c5 == ReleaseChangelog(updateVersionFile(c4, opts), opts, env)
                c6 == ReleasePush(commitChanges(c5, opts, env), opts, env)
                c7 == Log(c6, [kind |-> "success", text |-> "Release initialized"])
            IN  Done(StartSummary(c7, opts)))

RequireTagAndMessage(c, opts) ==
    FatalIf(c, opts.tag = EmptyStr \/ opts.message = EmptyStr, "MissingRequiredOption")

FinishPulls(c, branch, opts, env) ==
    IF ~opts.offline
    THEN pullBranch(
             pullBranch(
                 pullBranch(c, branch, opts.dryRun, opts.offline, env),
                 sDevelop, opts.dryRun, opts.offline, env),
             sMain, opts.dryRun, opts.offline, env)
    ELSE c

\* a finish that leaves the changelog to the operator; C18 does not hold of it
FinishChangelogSkipped(c, opts, env) == c

\* "Ensure changelog present before merges so it propagates"
FinishChangelog(c, opts, env) ==
    IF ~Live(c) \/ opts.noChangelog THEN c
    ELSE IF HasHeading(ExistingChangelog(c.repo), StripV(opts.tag)) THEN c
    ELSE commitChangelog(appendChangelog(c, StripV(opts.tag), opts, env),
                         StripV(opts.tag), opts, env)

TagFlags(opts) ==
    (IF opts.push /\ ~opts.offline THEN {"-p"} ELSE {})
    \cup (IF opts.tag # EmptyStr THEN {"-T"} ELSE {})
    \cup (IF opts.message # EmptyStr THEN {"-m"} ELSE {})

FinishDelete(c, branch, opts, env) ==
    IF ~opts.keepBranch /\ ~opts.dryRun
    THEN runGit(c, Cmd("branch-D", <<branch>>), Mode(TRUE, FALSE), env)
    ELSE c

handleReleaseFinish(c, opts, env) ==
    LET branchName == FullName(sRelease, VName(opts.name, opts.tag))
        c1 == ensureBranchExists(
                  ensureBranchExists(ensureCleanTree(c, env), sMain, env), sDevelop, env)
        c2 == RequireTagAndMessage(c1, opts)
        c3 == ensureBranchExists(ensureTagMissing(c2, StripV(opts.tag), env),
                                 branchName, env)
    IN  Then(c3, LAMBDA checked :
        Then(FinishChangelog(FinishPulls(checked, branchName, opts, env), opts, env),
             LAMBDA c4 :
            LET c5 == runGitFlow(c4, CmdF("flow-finish",
                                          <<sRelease, VName(opts.name, opts.tag),
                                            opts.tag, opts.message>>, TagFlags(opts)),
                                 Mode(FALSE, opts.dryRun), env)
                c6 == Log(c5, [kind |-> "success", text |-> "Release branch finalized"])
                c7 == LogIf(c6, opts.push /\ opts.offline,
                            [kind |-> "warn", text |-> "--push ignored in offline mode"])
                c8 == FinishDelete(c7, branchName, opts, env)
            IN  Done(Log(c8, [kind |-> "success", text |-> "Release completed"]))))

\* handleRelease called by a process that is at c
handleReleaseAt(c, action, opts, env) ==
    IF action = sStart THEN handleReleaseStart(PreambleOf(c, opts, env), opts, env)
    ELSE IF action = sFinish THEN handleReleaseFinish(PreambleOf(c, opts, env), opts, env)
    ELSE Fatal(PreambleOf(c, opts, env), "UnknownAction")

handleRelease(action, opts, env) == handleReleaseAt(Begin, action, opts, env)

----------------------------------------------------------------------------
(* operations/hotfix.js *)

\* readVersion() of hotfix.js: git show HEAD:version.txt
VersionShown(c) ==
    IF ~Live(c) THEN c
    ELSE IF ~Truthy(c.ret) THEN Fatal(c, "MissingVersionFile")
    ELSE IF ~validateVersion(FirstLineTrimmed(c.ret.out))
    THEN Fatal(c, "InvalidVersionFormat")
    ELSE [c EXCEPT !.current = FirstLineTrimmed(c.ret.out)]

hotfixReadVersion(c, env) ==
    VersionShown(runGit(c, Cmd("show-version", <<>>), Mode(TRUE, FALSE), env))

HotfixResolve(c, opts) ==
    IF ~Live(c) THEN c
    ELSE [c EXCEPT !.version =
              IF opts.version # EmptyStr THEN opts.version
              ELSE incrementVersion(c.current, OrDefault(opts.bump, sPatch))]

\* updateVersionFile() of hotfix.js: the new content is computed and dropped,
\* git write-tree is run instead of a write
VersionTreeWritten(c, opts, env) ==
    IF ~Live(c) THEN c
    ELSE IF ~Truthy(c.ret) THEN Fatal(c, "MissingVersionFile")
    ELSE IF opts.dryRun
    THEN Log(c, [kind |-> "dry-run", text |-> "would write version.txt"])
    ELSE runGit(c, Cmd("write-tree", <<>>), Mode(TRUE, FALSE), env)

hotfixUpdateVersionFile(c, opts, env) ==
    VersionTreeWritten(runGit(c, Cmd("show-version", <<>>), Mode(TRUE, FALSE), env),
                       opts, env)

HotfixBranch(c, opts) == FullName(sHotfix, OrDefault(opts.name, c.version))

HotfixCreate(c, opts, env) ==
    runGitFlow(
        StartPull(ensureBranchMissing(c, HotfixBranch(c, opts), env),
                  OrDefault(opts.base, sMain), opts, env),
        Cmd("flow-start", <<sHotfix, OrDefault(opts.name, c.version),
                            OrDefault(opts.base, sMain)>>),
        Mode(FALSE, opts.dryRun), env)

HotfixPush(c, opts, env) == StartPush(c, HotfixBranch(c, opts), opts, env)

handleHotfixStart(c, opts, env) ==
    LET c1 == ensureBranchExists(ensureCleanTree(c, env), sMain, env)
        c2 == CheckResolved(HotfixResolve(hotfixReadVersion(c1, env), opts))
        c3 == HotfixCreate(c2, opts, env)
    IN  Then(c3, LAMBDA started :
            LET c4 == Log(started, [kind |-> "success", text |-> "Hotfix branch started"])
                c5 == commitChanges(hotfixUpdateVersionFile(c4, opts, env), opts, env)
                c6 == HotfixPush(c5, opts, env)
            IN  Done(Log(c6, [kind |-> "success", text |-> "Hotfix initialized"])))

handleHotfixFinish(c, opts, env) ==
    LET hotfixName == OrDefault(opts.name, StripV(opts.tag))
        branchName == FullName(sHotfix, hotfixName)
        c1 == ensureBranchExists(
                  ensureBranchExists(ensureCleanTree(c, env), sMain, env), sDevelop, env)
        c2 == RequireTagAndMessage(c1, opts)
        c3 == ensureBranchExists(ensureTagMissing(c2, StripV(opts.tag), env),
                                 branchName, env)
    IN  Then(c3, LAMBDA checked :
            LET c4 == FinishPulls(checked, branchName, opts, env)
                c5 == runGitFlow(c4, CmdF("flow-finish",
                                          <<sHotfix, hotfixName, opts.tag, opts.message>>,
                                          TagFlags(opts)),
                                 Mode(FALSE, opts.dryRun), env)
                c6 == Log(c5, [kind |-> "success", text |-> "Hotfix branch finalized"])
                c7 == LogIf(c6, opts.push /\ opts.offline,
                            [kind |-> "warn", text |-> "--push ignored in offline mode"])
                c8 == FinishDelete(c7, branchName, opts, env)
            IN  Done(Log(c8, [kind |-> "success", text |-> "Hotfix completed"])))

\* handleHotfix called by a process that is at c
handleHotfixAt(c, action, opts, env) ==
    IF action = sStart THEN handleHotfixStart(PreambleOf(c, opts, env), opts, env)
    ELSE IF action = sFinish THEN handleHotfixFinish(PreambleOf(c, opts, env), opts, env)
    ELSE Fatal(PreambleOf(c, opts, env), "UnknownAction")

handleHotfix(action, opts, env) == handleHotfixAt(Begin, action, opts, env)

----------------------------------------------------------------------------
(* The hotfix operations with a changelog: the copy of operations/hotfix.js *)
(* that imports lib/changelog.js (kept in git-flow-utils.js)                *)

hotfixFinishWithChangelog(c, opts, env) ==
    LET branchName == FullName(sHotfix, VName(opts.name, opts.tag))
        c1 == ensureBranchExists(
                  ensureBranchExists(ensureCleanTree(c, env), sMain, env), sDevelop, env)
        c2 == RequireTagAndMessage(c1, opts)
        c3 == ensureBranchExists(ensureTagMissing(c2, StripV(opts.tag), env),
                                 branchName, env)
    IN  Then(c3, LAMBDA checked :
        Then(FinishChangelog(FinishPulls(checked, branchName, opts, env), opts, env),
             LAMBDA c4 :
            LET c5 == runGitFlow(c4, CmdF("flow-finish",
                                          <<sHotfix, VName(opts.name, opts.tag),
                                            opts.tag, opts.message>>, TagFlags(opts)),
                                 Mode(FALSE, opts.dryRun), env)
                c6 == Log(c5, [kind |-> "success", text |-> "Hotfix branch finalized"])
                c7 == LogIf(c6, opts.push /\ opts.offline,
                            [kind |-> "warn", text |-> "--push ignored in offline mode"])
                c8 == FinishDelete(c7, branchName, opts, env)
            IN  Done(Log(c8, [kind |-> "success", text |-> "Hotfix completed"]))))

\* handleHotfix("finish", opts) of that copy
hotfixWithChangelog(opts, env) ==
    hotfixFinishWithChangelog(Preamble(opts, env), opts, env)

----------------------------------------------------------------------------
(* operations/sync.js, commands/config.js, commands/init.js *)

MasterSeen(c) ==
    IF ~Live(c) THEN c
    ELSE [c EXCEPT !.base = IF ~c.ret.isNull THEN sMaster ELSE sMain]

MainSeen(c, env) ==
    IF ~Live(c) THEN c
    ELSE IF ~c.ret.isNull THEN [c EXCEPT !.base = sMain]
    ELSE MasterSeen(runGit(c, Cmd("ls-remote", <<sOrigin, sMaster>>), Mode(TRUE, FALSE), env))

detectMainBranch(c, env) ==
    MainSeen(runGit(c, Cmd("ls-remote", <<sOrigin, sMain>>), Mode(TRUE, FALSE), env), env)

BranchNamed(c) ==
    IF ~Live(c) THEN c
    ELSE [c EXCEPT !.original = IF Truthy(c.ret) THEN c.ret.out[1] ELSE EmptyStr]

currentBranch(c, env) ==
    BranchNamed(runGit(c, Cmd("rev-parse-head", <<>>), Mode(TRUE, FALSE), env))

Stashed(c) ==
    IF ~Live(c) THEN c
    ELSE [c EXCEPT !.stashed = Truthy(c.ret) /\ ~HasLine(c.ret.out, sNoLocalChanges)]

stashPush(c, env) == Stashed(runGit(c, Cmd("stash-push", <<>>), Mode(TRUE, FALSE), env))

stashPop(c, env) == runGit(c, Cmd("stash-pop", <<>>), Mode(TRUE, FALSE), env)

pushBranch(c, branch, dryRun, env) ==
    runGit(c, Cmd("push", <<branch>>), Mode(TRUE, dryRun), env)

MergeVerdict(c, dryRun) == FatalIf(c, c.ret.isNull /\ ~dryRun, "MergeFailed")

mergeBranch(c, source, target, dryRun, env) ==
    MergeVerdict(runGit(checkout(c, target, Mode(FALSE, dryRun), env),
                        Cmd("merge", <<source>>), Mode(TRUE, dryRun), env), dryRun)

SyncBase(c, opts, env) ==
    pushBranch(
        pullBranch(checkout(c, c.base, Mode(FALSE, opts.dryRun), env),
                   c.base, opts.dryRun, opts.offline, env),
        c.base, opts.dryRun, env)

SyncDevelop(c, opts, env) ==
    pushBranch(
        mergeBranch(
            pullBranch(
                checkout(ensureBranchExists(c, sDevelop, env), sDevelop,
                         Mode(FALSE, opts.dryRun), env),
                sDevelop, opts.dryRun, opts.offline, env),
            c.base, sDevelop, opts.dryRun, env),
        sDevelop, opts.dryRun, env)

SyncPop(c, env) == IF Live(c) /\ c.stashed THEN stashPop(c, env) ELSE c

SyncRestore(c, opts, env) ==
    IF Live(c) /\ c.original # EmptyStr /\ c.original # sDevelop /\ c.original # c.base
    THEN checkout(c, c.original, Mode(FALSE, opts.dryRun), env)
    ELSE c

handleSync(opts, env) ==
    LET c1 == stashPush(currentBranch(detectMainBranch(Preamble(opts, env), env), env), env)
        c2 == SyncDevelop(SyncBase(c1, opts, env), opts, env)
        c3 == SyncPop(SyncRestore(c2, opts, env), env)
    IN  Done(Log(c3, [kind |-> "success", text |-> "Sync complete"]))

ConfigGet(c, key, env) == runGit(c, Cmd("config-get", <<key>>), Mode(TRUE, FALSE), env)

getGitFlowConfig(c, env) ==
    ConfigGet(ConfigGet(ConfigGet(ConfigGet(ConfigGet(ConfigGet(c,
        sMasterKey, env), sDevelopKey, env), sFeature, env), sRelease, env),
        sHotfix, env), sSupport, env)

ConfigSet(c, opts, env) ==
    runGit(FatalIf(c, opts.set[1] = EmptyStr \/ opts.set[2] = EmptyStr, "MissingArgument"),
           Cmd("config-set", opts.set), Mode(FALSE, FALSE), env)

handleConfig(opts, env) ==
    IF opts.list THEN Done(getGitFlowConfig(Preamble(opts, env), env))
    ELSE IF opts.get # EmptyStr THEN Done(ConfigGet(Preamble(opts, env), opts.get, env))
    ELSE IF opts.set # <<>> THEN Done(ConfigSet(Preamble(opts, env), opts, env))
    ELSE Done(Preamble(opts, env))

handleInit(opts, env) ==
    LET c1 == runGitFlow(ensureGitFlowAvailable(Begin, opts, env),
                         Cmd("flow-init", <<>>), Mode(FALSE, opts.dryRun), env)
        c2 == Log(c1, [kind |-> "success", text |-> "git-flow initialized"])
    IN  Done(runGitFlow(c2, Cmd("flow-config", <<>>), Mode(TRUE, FALSE), env))

----------------------------------------------------------------------------
(* scripts/release-finalize.js *)

sReleaseSlash == sRelease \o sSlash
sHotfixSlash == sHotfix \o sSlash
sUnknown == <<"u", "n", "k", "n", "o", "w", "n">>
sReleaseVersion == <<"R", "e", "l", "e", "a", "s", "e", " ",
                     "v", "e", "r", "s", "i", "o", "n", " ">>

\* process.env.CI === "true" stands for --yes
finalizeParseArgs(argv) == [argv EXCEPT !.yes = argv.yes \/ argv.ci]

\* b.replace("*", ""): the first star of the line is removed
StripStar(line) ==
    IF \A i \in 1..Len(line) : line[i] # "*" THEN line
    ELSE LET i == CHOOSE j \in 1..Len(line) :
                      line[j] = "*" /\ \A k \in 1..(j - 1) : line[k] # "*"
         IN  SubSeq(line, 1, i - 1) \o SubSeq(line, i + 1, Len(line))

\* out.split("\n").map((b) => b.replace("*", "").trim()).filter(Boolean),
\* and [] when out is null or empty
BranchNames(ret) ==
    IF ~Truthy(ret) THEN <<>>
    ELSE SelectSeq([i \in 1..Len(ret.out) |-> Trim(StripStar(ret.out[i]))],
                   LAMBDA b : b # EmptyStr)

listBranches(c, prefix, env) ==
    runGit(c, Cmd("branch-list", <<prefix>>), Mode(TRUE, FALSE), env)

\* a push that does not look at the requested type; C16 does not hold of it
PushedAll(c, opts, type) ==
    IF Live(c) THEN [c EXCEPT !.menu = @ \o BranchNames(c.ret)] ELSE c

\* if (!opts.type || opts.type === type) candidates.push(...list)
Pushed(c, opts, type) ==
    IF Live(c) /\ (opts.type = EmptyStr \/ opts.type = type)
    THEN [c EXCEPT !.menu = @ \o BranchNames(c.ret)]
    ELSE c

Candidates(c, opts, env) ==
    Pushed(listBranches(Pushed(listBranches(c, sReleaseSlash, env), opts, sRelease),
                        sHotfixSlash, env),
           opts, sHotfix)

\* console.log(`  ${idx + 1}. ${b}`)
MenuLine(i, b) == NumToStr(i) \o <<".", " ">> \o b

ShowMenu(c) == [c EXCEPT !.shown = [i \in 1..Len(c.menu) |-> MenuLine(i, c.menu[i])]]

promptTextSync(c) == [c EXCEPT !.trace = Append(@, Cmd("prompt", <<>>))]

\* const index = Number(answer) - 1, checked and used
Chosen(c, env) ==
    IF \/ ToNumber(env.answer) = NaN
       \/ ToNumber(env.answer) - 1 < 0
       \/ ToNumber(env.answer) - 1 >= Len(c.menu)
    THEN Fatal(c, "InvalidSelection")
    ELSE [c EXCEPT !.target = c.menu[ToNumber(env.answer)]]

Select(c, opts, env) ==
    IF ~Live(c) THEN c
    ELSE IF c.menu = <<>> THEN Fatal(c, "NoCandidates")
    ELSE IF Len(c.menu) = 1 THEN [c EXCEPT !.target = c.menu[1]]
    ELSE IF opts.yes \/ opts.ci THEN Fatal(c, "AmbiguousBranch")
    ELSE Chosen(promptTextSync(ShowMenu(c)), env)

detectBranch(c, opts, env) ==
    IF ~Live(c) THEN c
    ELSE IF opts.branch # EmptyStr THEN [c EXCEPT !.target = opts.branch]
    ELSE Select(Candidates(c, opts, env), opts, env)

branchType(branch) ==
    IF StartsWith(branch, sReleaseSlash) THEN sRelease
    ELSE IF StartsWith(branch, sHotfixSlash) THEN sHotfix
    ELSE sUnknown

ensureBranchMatchesType(c, requested) ==
    FatalIf(FatalIf(c, requested # EmptyStr /\ requested # branchType(c.target),
                    "TypeMismatch"),
            branchType(c.target) = sUnknown, "NotReleaseOrHotfix")

\* \d+
IsDigits(seg) == seg # <<>> /\ \A i \in 1..Len(seg) : seg[i] \in Digits

\* \d+\.\d+\.\d+ for the whole of rest
IsTriple(rest) ==
    LET segs == Split(rest, ".") IN
    Len(segs) = 3 /\ \A i \in 1..3 : IsDigits(segs[i])

\* where /v(\d+\.\d+\.\d+)$/ matches in the name
VersionStarts(branch) ==
    {i \in 1..Len(branch) :
        branch[i] = "v" /\ IsTriple(SubSeq(branch, i + 1, Len(branch)))}

\* versionMatch[1]
BranchVersion(branch) ==
    SubSeq(branch, (CHOOSE i \in VersionStarts(branch) : TRUE) + 1, Len(branch))

VersionMatched(c) ==
    IF ~Live(c) THEN c
    ELSE IF VersionStarts(c.target) = {} THEN Fatal(c, "NoVersionInBranch")
    ELSE [c EXCEPT !.version = BranchVersion(c.target)]

\* opts.name = version; opts.tag = `v${version}`; opts.message = ..
FinishOptsOf(opts, version) ==
    [name |-> version, tag |-> sV \o version, message |-> sReleaseVersion \o version,
     push |-> opts.push, keepBranch |-> opts.keepBranch, dryRun |-> opts.dryRun,
     offline |-> opts.offline, noChangelog |-> opts.noChangelog, yes |-> opts.yes]

Dispatch(c, opts, env) ==
    IF ~Live(c) THEN c
    ELSE IF branchType(c.target) = sHotfix
    THEN handleHotfixAt(c, sFinish, FinishOptsOf(opts, c.version), env)
    ELSE handleReleaseAt(c, sFinish, FinishOptsOf(opts, c.version), env)

\* log(type, message): the line on the terminal and operations.push(..)
finalizeLog(c, msg) ==
    [c EXCEPT !.msgs = Append(@, msg), !.operations = Append(@, msg)]

\* generateJsonSummary("ok", targetBranch, version) written to stdout
generateJsonSummary(c, opts, version) ==
    IF opts.json
    THEN [c EXCEPT !.summary = Append(@, [status |-> "ok", branch |-> c.target,
                                          version |-> version,
                                          operations |-> c.operations])]
    ELSE c

\* what main does after the handler has returned
Returned(c, opts, msg) ==
    IF c.status = "exit0" THEN generateJsonSummary(finalizeLog(c, msg), opts, c.version)
    ELSE c

releaseFinalize(opts, env) ==
    LET c1 == ensureBranchExists(
                  ensureBranchExists(ensureCleanTree(Begin, env), sMain, env),
                  sDevelop, env)
        c2 == ensureBranchMatchesType(detectBranch(c1, opts, env), opts.type)
    IN  Then(VersionMatched(c2), LAMBDA matched :
        Then(Dispatch(matched, opts, env), LAMBDA c3 :
            Returned(c3, opts, [kind |-> "success", text |-> "Release/hotfix finalized."])))

----------------------------------------------------------------------------
(* release-finalize.js, the edition that merges and tags by itself; its     *)
(* detectBranch and ensureBranchMatchesType are the ones above              *)

\* ensureTagMissing of this edition: the tag looked for is `v${version}`
TagFree(c) == FatalIf(c, (sV \o c.current) \in TagLines(c.ret), "DuplicateTag")

ensureTagFree(c, env) == TagFree(runGit(c, Cmd("tag-l", <<>>), Mode(TRUE, FALSE), env))

requireBranchVersion(c) ==
    IF Live(c) /\ VersionStarts(c.target) # {} /\ BranchVersion(c.target) # c.current
    THEN Log(c, [kind |-> "warn", text |-> "Branch version differs from version.txt"])
    ELSE c

FinalizePulls(c, opts, env) ==
    IF ~opts.offline
    THEN pullBranch(
             pullBranch(pullBranch(c, sMain, opts.dryRun, opts.offline, env),
                        sDevelop, opts.dryRun, opts.offline, env),
             c.target, opts.dryRun, opts.offline, env)
    ELSE c

CheckoutTarget(c, opts, env) == checkout(c, c.target, Mode(FALSE, opts.dryRun), env)

\* the write of ensureChangelog with the add and the commit that follow it
ChangelogEnsured(c, opts, env) ==
    IF opts.dryRun THEN c
    ELSE Log(commitChangelog(c, c.current, opts, env),
             [kind |-> "success", text |-> "Changelog updated"])

ensureChangelog(c, opts, env) ==
    IF ~Live(c) \/ opts.noChangelog THEN c
    ELSE IF HasHeading(ExistingChangelog(c.repo), c.current)
    THEN Log(c, [kind |-> "info", text |-> "Changelog already has this version."])
    ELSE ChangelogEnsured(
             ChangelogWrite(
                 CollectCommits(runGit(c, Cmd("describe", <<>>), Mode(TRUE, FALSE), env),
                                env),
                 c.current, opts, env),
             opts, env)

merge(c, target, opts, env) ==
    Log(mergeBranch(c, c.target, target, opts.dryRun, env),
        [kind |-> "success", text |-> "Merged"])

createTag(c, opts, env) ==
    Log(runGit(c, Cmd("tag-a", <<sV \o c.current, sReleaseVersion \o c.current>>),
               Mode(FALSE, opts.dryRun), env),
        [kind |-> "success", text |-> "Created tag"])

deleteBranch(c, opts, env) ==
    IF opts.keepBranch
    THEN Log(c, [kind |-> "warn", text |-> "Skipping branch deletion (--keep-branch)"])
    ELSE Log(runGit(runGit(c, Cmd("branch-D", <<c.target>>), Mode(TRUE, opts.dryRun), env),
                    Cmd("push-delete", <<c.target>>), Mode(TRUE, opts.dryRun), env),
             [kind |-> "success", text |-> "Deleted branch"])

pushAll(c, opts, env) ==
    IF ~opts.push
    THEN Log(c, [kind |-> "warn", text |-> "Skipping push (use --push to publish)"])
    ELSE Log(runGit(runGit(runGit(c, Cmd("push", <<sMain>>), Mode(TRUE, opts.dryRun), env),
                           Cmd("push", <<sDevelop>>), Mode(TRUE, opts.dryRun), env),
                    Cmd("push", <<>>), Mode(TRUE, opts.dryRun), env),
             [kind |-> "success", text |-> "Pushed main, develop, and tags"])

\* every line of this edition goes through its own log: operations is the
\* whole of what was logged
Summarised(c, opts) ==
    IF Live(c)
    THEN generateJsonSummary([c EXCEPT !.operations = c.msgs], opts, c.current)
    ELSE c

mergingFinalize(opts, env) ==
    LET c1 == ensureBranchExists(
                  ensureBranchExists(ensureCleanTree(Begin, env), sMain, env),
                  sDevelop, env)
        Detect(c) == detectBranch(ensureTagFree(readVersion(c), env), opts, env)
        Match(c) == requireBranchVersion(ensureBranchMatchesType(c, opts.type))
        Prepare(c) ==
            ensureChangelog(CheckoutTarget(FinalizePulls(c, opts, env), opts, env),
                            opts, env)
        Merge(c) == merge(createTag(merge(c, sMain, opts, env), opts, env),
                          sDevelop, opts, env)
        Publish(c) == pushAll(deleteBranch(c, opts, env), opts, env)
        Close(c) ==
            Done(Summarised(Log(c, [kind |-> "success",
                                    text |-> "Release/hotfix finalized."]),
                            opts))
    IN  Then(c1, LAMBDA c2 :
        Then(Detect(c2), LAMBDA c3 :
        Then(Match(c3), LAMBDA c4 :
        Then(Prepare(c4), LAMBDA c5 :
        Then(Merge(c5), LAMBDA c6 :
        Then(Publish(c6), Close))))))

----------------------------------------------------------------------------
(* Command lines: parseArgs of scripts/git-flow.js and of                  *)
(* scripts/release-init.js.  argv holds the value of every option that     *)
(* is on the command line; script and ci (the CI variable) come with it.   *)

parseArgs(argv) ==
    [argv EXCEPT !.name = IF argv.name # EmptyStr THEN argv.name ELSE sNextRelease]

releaseInitParseArgs(argv) ==
    [argv EXCEPT
        !.name = EmptyStr,
        !.yes = argv.yes \/ argv.ci,
        !.bump = IF argv.bump = EmptyStr /\ argv.version = EmptyStr
                 THEN (IF argv.type = sHotfix THEN sPatch ELSE sMinor)
                 ELSE argv.bump]

----------------------------------------------------------------------------
(* Inputs *)

sA == <<"a">>
sBadName == <<"b", "a", "d", " ", "n", "a", "m", "e">>
sV190 == <<"v", "1", ".", "9", ".", "0">>
s190 == <<"1", ".", "9", ".", "0">>
sMsg == <<"m">>

\* the outcomes of the environment during one run
sCommit == <<"-", " ", "f", "i", "x">>
sToday == <<"2", "0", "2", "6", "-", "1", "1", "-", "0", "2">>
sNo == <<"n">>
s200 == <<"2", ".", "0", ".", "0">>
s180 == <<"1", ".", "8", ".", "0">>
s1023 == <<"1", ".", "0", "2", ".", "3">>

\* gfAvail: git flow version succeeds; toolOk: the workflow tool and git merge
\* succeed when their own preconditions hold; remoteOk: origin is reachable;
\* remoteHeads: heads of origin; commits: output of git log; today: the date;
\* answer, custom: what the operator types at the two prompts of promptVersion
EnvAllOk == [gfAvail |-> TRUE, toolOk |-> TRUE, remoteOk |-> TRUE,
             remoteHeads |-> {sMain}, commits |-> <<sCommit>>, today |-> sToday,
             answer |-> EmptyStr, custom |-> EmptyStr]

Envs == {EnvAllOk,
         [EnvAllOk EXCEPT !.gfAvail = FALSE],
         [EnvAllOk EXCEPT !.toolOk = FALSE],
         [EnvAllOk EXCEPT !.remoteOk = FALSE]}

StartOpts == [type : BranchTypes \cup {EmptyStr},
              name : {sA, sBadName},
              base : {EmptyStr, sMain},
              fetch : BOOLEAN, force : BOOLEAN,
              dryRun : BOOLEAN, offline : BOOLEAN]

FinishOpts == [type : BranchTypes,
               name : {sA},
               tag : {EmptyStr, sV190, s190},
               message : {EmptyStr, sMsg},
               push : BOOLEAN, keepBranch : BOOLEAN, squash : BOOLEAN,
               dryRun : BOOLEAN, offline : BOOLEAN]

BranchOpts == [type : BranchTypes, name : {sA}, force : BOOLEAN, dryRun : BOOLEAN]

\* the command lines of release and hotfix; an option that is not on the
\* command line is EmptyStr or FALSE
VersionArgs == {[bump |-> EmptyStr, version |-> EmptyStr],
                [bump |-> sMinor, version |-> EmptyStr],
                [bump |-> sPatch, version |-> EmptyStr],
                [bump |-> sMajor, version |-> EmptyStr],
                [bump |-> EmptyStr, version |-> s200],
                [bump |-> sPatch, version |-> s200],
                [bump |-> EmptyStr, version |-> s180],
                [bump |-> EmptyStr, version |-> s1023],
                [bump |-> EmptyStr, version |-> s190],
                [bump |-> sBuild, version |-> EmptyStr]}

\* Two families of command lines are entered.  The first varies how the
\* version is asked for and keeps the other options off; the second asks for
\* the default bump and varies the name and the options that decide which
\* subprocesses run.
VariesVersion(a) ==
    /\ ~a.push /\ ~a.offline /\ a.name = EmptyStr
    /\ a.noChangelog => a.version = s190 \/ a.bump = sBuild

VariesEffects(a) ==
    /\ a.version = EmptyStr /\ ~a.ci
    /\ IF a.type = sHotfix THEN a.bump = EmptyStr ELSE a.bump = sMinor /\ a.yes

StartArgv(type, names) ==
    {a \in [script : {"git-flow", "release-init"}, type : {type}, name : names,
            bump : {EmptyStr, sMinor, sPatch, sMajor, sBuild},
            version : {EmptyStr, s200, s180, s1023, s190},
            base : {EmptyStr}, tag : {EmptyStr}, message : {EmptyStr},
            push : BOOLEAN, keepBranch : {FALSE}, noChangelog : BOOLEAN,
            dryRun : BOOLEAN, offline : BOOLEAN, yes : BOOLEAN, ci : BOOLEAN] :
        /\ [bump |-> a.bump, version |-> a.version] \in VersionArgs
        /\ a.script = "release-init" => a.name = EmptyStr
        /\ a.ci => ~a.yes
        /\ (a.ci /\ a.script = "git-flow") => a.version = EmptyStr /\ ~a.dryRun
        /\ VariesVersion(a) \/ VariesEffects(a)}

ReleaseStartArgv == StartArgv(sRelease, {EmptyStr, sA})

\* hotfix.js reads neither yes nor noChangelog
HotfixStartArgv ==
    {a \in StartArgv(sHotfix, {EmptyStr}) : ~a.yes /\ ~a.ci /\ ~a.noChangelog}

\* finish likewise: the first family varies the tag and the message, the
\* second the options of a finish with both
VariesTag(a) == ~a.push /\ ~a.keepBranch /\ ~a.noChangelog

FinishArgv ==
    {a \in [script : {"git-flow"}, type : {sRelease}, name : {EmptyStr},
            bump : {EmptyStr}, version : {EmptyStr}, base : {EmptyStr},
            tag : {EmptyStr, sV190, s190}, message : {EmptyStr, sMsg},
            push : BOOLEAN, keepBranch : BOOLEAN, noChangelog : BOOLEAN,
            dryRun : BOOLEAN, offline : BOOLEAN, yes : {FALSE}, ci : {FALSE}] :
        VariesTag(a) \/ (a.tag = sV190 /\ a.message = sMsg)}

SyncOpts == [dryRun : BOOLEAN, offline : BOOLEAN]

SyncEnvs == Envs \cup {[EnvAllOk EXCEPT !.remoteHeads = {sMaster}],
                       [EnvAllOk EXCEPT !.remoteHeads = {}]}

ConfigOpts == [list : BOOLEAN, get : {EmptyStr, sMasterKey},
               set : {<<>>, <<sDevelopKey, sMain>>, <<sMasterKey, sMaster>>},
               dryRun : BOOLEAN]

InitOpts == [dryRun : BOOLEAN]

HotfixFinishArgv ==
    {[a EXCEPT !.type = sHotfix] : a \in {f \in FinishArgv : ~f.noChangelog}}

Failing == {[EnvAllOk EXCEPT !.toolOk = FALSE],
            [EnvAllOk EXCEPT !.remoteOk = FALSE, !.commits = <<>>]}

\* the operator declines the proposed version and types another
Declining == {[EnvAllOk EXCEPT !.answer = sNo, !.custom = s200],
              [EnvAllOk EXCEPT !.answer = sNo, !.custom = s1023]}

OpEnvs == {EnvAllOk} \cup Failing \cup Declining

\* the prompt is reached only without --version and without --yes
Asks(opts) == opts.version = EmptyStr /\ ~opts.yes

----------------------------------------------------------------------------
(* The state machine *)

UnsetConfig == [k \in ConfigKeys |-> EmptyStr]
DefaultConfig == [k \in ConfigKeys |-> IF k = sMasterKey THEN sMain ELSE sDevelop]

NoRun == [cmd |-> "none", opts |-> [dryRun |-> FALSE, offline |-> FALSE],
          env |-> EnvAllOk, trace |-> <<>>, msgs |-> <<>>,
          status |-> "exit0", err |-> "none", pre |-> <<>>,
          current |-> EmptyStr, version |-> EmptyStr,
          target |-> EmptyStr, menu |-> <<>>, shown |-> <<>>, summary |-> <<>>,
          changed |-> {}]

\* a repository with git-flow initialised, on a clean main
CleanRepo == [branches |-> {sMain, sDevelop}, head |-> sMain, tags |-> {},
              dirty |-> FALSE, stash |-> 0, gitConfig |-> DefaultConfig,
              versionTxt |-> [exists |-> TRUE, lines |-> <<s190, EmptyStr>>],
              changelog |-> [exists |-> FALSE, lines |-> <<EmptyStr>>]]

InitRepos ==
    {CleanRepo,
     [CleanRepo EXCEPT !.tags = {sV190}],
     [CleanRepo EXCEPT !.tags = {s190}],
     [CleanRepo EXCEPT !.branches = {sMain}],
     [CleanRepo EXCEPT !.dirty = TRUE],
     [CleanRepo EXCEPT !.gitConfig = UnsetConfig],
     [CleanRepo EXCEPT !.branches = {sMain, FullName(sRelease, sA), FullName(sFeature, sA)},
                       !.head = FullName(sFeature, sA)],
     [CleanRepo EXCEPT !.branches = {sMain, sDevelop, FullName(sFeature, sA)},
                       !.head = FullName(sFeature, sA), !.dirty = TRUE]}

Init ==
    \E r \in InitRepos :
        /\ branches = r.branches
        /\ head = r.head
        /\ tags = r.tags
        /\ dirty = r.dirty
        /\ stash = r.stash
        /\ gitConfig = r.gitConfig
        /\ versionTxt = r.versionTxt
        /\ changelog = r.changelog
        /\ run = NoRun
        /\ runs = 0

Idle == run.cmd = "none"

\* the shell is at its prompt and another command may be entered
CanRun == Idle /\ runs < MaxRuns

\* the process has exited: the repository is as the run left it
Finish(c, cmd, opts, env) ==
    /\ runs' = runs + 1
    /\ branches' = c.repo.branches
    /\ head' = c.repo.head
    /\ tags' = c.repo.tags
    /\ dirty' = c.repo.dirty
    /\ stash' = c.repo.stash
    /\ gitConfig' = c.repo.gitConfig
    /\ versionTxt' = c.repo.versionTxt
    /\ changelog' = c.repo.changelog
    /\ run' = [cmd |-> cmd, opts |-> opts, env |-> env, trace |-> c.trace,
               msgs |-> c.msgs, status |-> c.status, err |-> c.err, pre |-> Repo,
               current |-> c.current, version |-> c.version,
               target |-> c.target, menu |-> c.menu, shown |-> c.shown,
               summary |-> c.summary, changed |-> c.changed]

StartCmd ==
    /\ CanRun
    /\ \E opts \in StartOpts, env \in Envs :
           Finish(handleStart(opts, env), "start", opts, env)

FinishCmd ==
    /\ CanRun
    /\ \E opts \in FinishOpts, env \in Envs :
           Finish(handleFinish(opts, env), "finish", opts, env)

PublishCmd ==
    /\ CanRun
    /\ \E opts \in BranchOpts, env \in Envs :
           Finish(handlePublish(opts, env), "publish", opts, env)

TrackCmd ==
    /\ CanRun
    /\ \E opts \in BranchOpts, env \in Envs :
           Finish(handleTrack(opts, env), "track", opts, env)

DeleteCmd ==
    /\ CanRun
    /\ \E opts \in BranchOpts, env \in Envs :
           Finish(handleDelete(opts, env), "delete", opts, env)

\* back at the shell prompt: nothing of the process is left but the repository
Prompt ==
    /\ ~Idle
    /\ run' = NoRun
    /\ UNCHANGED <<branches, head, tags, dirty, stash, gitConfig, versionTxt,
                   changelog, runs>>

Next == StartCmd \/ FinishCmd \/ PublishCmd \/ TrackCmd \/ DeleteCmd \/ Prompt

Spec == Init /\ [][Next]_vars

----------------------------------------------------------------------------
(* The release and hotfix operations, from either script *)

Entry(argv) == IF argv.script = "git-flow" THEN parseArgs(argv) ELSE releaseInitParseArgs(argv)

\* which outcomes of the environment are entered with which command line
Entered(argv, env) ==
    /\ env \in Declining => Asks(Entry(argv)) /\ argv.type = sRelease /\ argv.tag = EmptyStr
    /\ env \in Failing =>
           IF argv.tag # EmptyStr THEN argv.message # EmptyStr /\ argv.tag = sV190
           ELSE VariesEffects(argv)

ReleaseStartCmd ==
    /\ CanRun
    /\ \E argv \in ReleaseStartArgv, env \in OpEnvs :
           /\ Entered(argv, env)
           /\ Finish(handleRelease(sStart, Entry(argv), env), "release-start",
                     Entry(argv), env)

ReleaseFinishCmd ==
    /\ CanRun
    /\ \E argv \in FinishArgv, env \in OpEnvs :
           /\ Entered(argv, env)
           /\ Finish(handleRelease(sFinish, Entry(argv), env), "release-finish",
                     Entry(argv), env)

HotfixStartCmd ==
    /\ CanRun
    /\ \E argv \in HotfixStartArgv, env \in OpEnvs :
           /\ Entered(argv, env)
           /\ Finish(handleHotfix(sStart, Entry(argv), env), "hotfix-start",
                     Entry(argv), env)

HotfixFinishCmd ==
    /\ CanRun
    /\ \E argv \in HotfixFinishArgv, env \in OpEnvs :
           /\ Entered(argv, env)
           /\ Finish(handleHotfix(sFinish, Entry(argv), env), "hotfix-finish",
                     Entry(argv), env)

NextRelease ==
    ReleaseStartCmd \/ ReleaseFinishCmd \/ HotfixStartCmd \/ HotfixFinishCmd \/ Prompt

SpecRelease == Init /\ [][NextRelease]_vars

----------------------------------------------------------------------------
(* Synchronisation, configuration and initialisation *)

SyncCmd ==
    /\ CanRun
    /\ \E opts \in SyncOpts, env \in SyncEnvs :
           Finish(handleSync(opts, env), "sync", opts, env)

ConfigCmd ==
    /\ CanRun
    /\ \E opts \in ConfigOpts, env \in Envs :
           Finish(handleConfig(opts, env), "config", opts, env)

InitCmd ==
    /\ CanRun
    /\ \E opts \in InitOpts, env \in Envs :
           Finish(handleInit(opts, env), "init", opts, env)

NextOps == SyncCmd \/ ConfigCmd \/ InitCmd \/ Prompt

SpecOps == Init /\ [][NextOps]_vars

----------------------------------------------------------------------------
(* Finalisation: release-finalize.js in its two editions *)

s1100 == <<"1", ".", "1", "0", ".", "0">>
s1101 == <<"1", ".", "1", "0", ".", "1">>
s191 == <<"1", ".", "9", ".", "1">>
sRelease1100 == FullName(sRelease, sV \o s1100)
sRelease1101 == FullName(sRelease, sV \o s1101)
sHotfix191 == FullName(sHotfix, sV \o s191)
sReleaseRc1100 == FullName(sRelease, <<"r", "c", "-">> \o sV \o s1100)

\* the command lines of release-finalize.js.  One family varies how the
\* branch is found, the other what the finish does once it is found.
VariesBranch(a) == ~a.push /\ ~a.keepBranch /\ ~a.noChangelog /\ ~a.offline

VariesFinish(a) == a.type = EmptyStr /\ a.yes /\ ~a.ci

FinalizeArgv ==
    {a \in [type : {EmptyStr, sRelease, sHotfix},
            branch : {EmptyStr, sRelease1100, FullName(sFeature, sA)},
            push : BOOLEAN, dryRun : BOOLEAN, yes : BOOLEAN, noChangelog : BOOLEAN,
            keepBranch : BOOLEAN, offline : BOOLEAN, ci : BOOLEAN, json : BOOLEAN] :
        /\ a.ci => ~a.yes
        /\ a.json => VariesFinish(a) /\ ~a.keepBranch /\ ~a.offline
        /\ VariesBranch(a) \/ VariesFinish(a)}

\* what the operator types at "Enter choice: "
Choosing == {[EnvAllOk EXCEPT !.answer = <<"1">>],
             [EnvAllOk EXCEPT !.answer = <<"2">>],
             [EnvAllOk EXCEPT !.answer = <<"3">>],
             [EnvAllOk EXCEPT !.answer = <<"0">>],
             [EnvAllOk EXCEPT !.answer = <<"x">>]}

FinalizeEnvs == {EnvAllOk} \cup Failing \cup Choosing

\* the prompt can be reached only without --branch, --yes and CI
FinalizeEntered(argv, env) ==
    /\ env \in Choosing => argv.branch = EmptyStr /\ ~argv.yes /\ ~argv.ci
    /\ env \in Failing => VariesFinish(argv)

\* repositories in which a release or a hotfix is under way
ReleaseRepo == [CleanRepo EXCEPT !.branches = {sMain, sDevelop, sRelease1100},
                                 !.head = sRelease1100,
                                 !.versionTxt.lines = <<s1100, EmptyStr>>]

FinalizeRepos ==
    {CleanRepo,
     ReleaseRepo,
     [ReleaseRepo EXCEPT !.versionTxt.lines = <<s190, EmptyStr>>, !.head = sMain],
     [ReleaseRepo EXCEPT !.changelog =
          [exists |-> TRUE,
           lines |-> <<sHeading \o s1100 \o sDateSep \o sToday, sCommit, EmptyStr>>]],
     [ReleaseRepo EXCEPT !.branches = @ \cup {sHotfix191}],
     [ReleaseRepo EXCEPT !.branches = @ \cup {sHotfix191, sRelease1101}, !.head = sDevelop],
     [ReleaseRepo EXCEPT !.branches = {sMain, sDevelop, FullName(sRelease, sA), sHotfix191},
                         !.head = sHotfix191,
                         !.versionTxt.lines = <<s190, EmptyStr>>],
     [ReleaseRepo EXCEPT !.branches = @ \cup {sHotfix191},
                         !.changelog =
          [exists |-> TRUE,
           lines |-> <<sHeading \o s191 \o sDateSep \o sToday, sCommit, EmptyStr>>]],
     [ReleaseRepo EXCEPT !.tags = {sV \o s1100}],
     [ReleaseRepo EXCEPT !.branches = @ \cup {sReleaseRc1100}, !.head = sReleaseRc1100],
     [ReleaseRepo EXCEPT !.dirty = TRUE],
     [ReleaseRepo EXCEPT !.gitConfig = UnsetConfig]}

\* `git-flow.js hotfix finish` with the options of a finish
HotfixNotesArgv ==
    [script : {"git-flow"}, type : {sHotfix}, name : {EmptyStr, s191},
     bump : {EmptyStr}, version : {EmptyStr}, base : {EmptyStr},
     tag : {sV \o s191}, message : {sMsg},
     push : {FALSE}, keepBranch : {FALSE}, noChangelog : BOOLEAN,
     dryRun : BOOLEAN, offline : BOOLEAN, yes : {FALSE}, ci : {FALSE}]

InitFinalize ==
    \E r \in FinalizeRepos :
        /\ branches = r.branches
        /\ head = r.head
        /\ tags = r.tags
        /\ dirty = r.dirty
        /\ stash = r.stash
        /\ gitConfig = r.gitConfig
        /\ versionTxt = r.versionTxt
        /\ changelog = r.changelog
        /\ run = NoRun
        /\ runs = 0

FinalizeCmd ==
    /\ CanRun
    /\ \E argv \in FinalizeArgv, env \in FinalizeEnvs :
           /\ FinalizeEntered(argv, env)
           /\ Finish(releaseFinalize(finalizeParseArgs(argv), env), "finalize",
                     finalizeParseArgs(argv), env)

MergingFinalizeCmd ==
    /\ CanRun
    /\ \E argv \in FinalizeArgv, env \in FinalizeEnvs :
           /\ FinalizeEntered(argv, env)
           /\ Finish(mergingFinalize(finalizeParseArgs(argv), env), "finalize-merging",
                     finalizeParseArgs(argv), env)

HotfixNotesFinishCmd ==
    /\ CanRun
    /\ \E argv \in HotfixNotesArgv, env \in {EnvAllOk} \cup Failing :
           Finish(hotfixWithChangelog(parseArgs(argv), env), "hotfix-finish-changelog",
                  parseArgs(argv), env)

NextFinalize == FinalizeCmd \/ MergingFinalizeCmd \/ HotfixNotesFinishCmd \/ Prompt

SpecFinalize == InitFinalize /\ [][NextFinalize]_vars

----------------------------------------------------------------------------
(* lib/changelog.js called as a function: appendChangelog(version, opts)   *)

\* n written with at least w digits
RECURSIVE Zeros(_)
Zeros(k) == IF k <= 0 THEN <<>> ELSE <<"0">> \o Zeros(k - 1)

Padded(n, w) == Zeros(w - Len(NumToStr(n))) \o NumToStr(n)

\* new Date().toISOString().slice(0, 10)
IsoDate(y, m, d) == Padded(y, 4) \o <<"-">> \o Padded(m, 2) \o <<"-">> \o Padded(d, 2)

sCommit2 == <<"-", " ", "a", "d", "d">>
sTitle == <<"#", " ", "C", "h", "a", "n", "g", "e", "l", "o", "g">>

\* the history since the last tag and the day of the call
ChangelogEnvs ==
    {[EnvAllOk EXCEPT !.commits = <<>>, !.today = IsoDate(2026, 11, 2)],
     [EnvAllOk EXCEPT !.commits = <<sCommit>>, !.today = IsoDate(2026, 11, 2)],
     [EnvAllOk EXCEPT !.commits = <<sCommit, sCommit2>>, !.today = IsoDate(2026, 11, 2)],
     [EnvAllOk EXCEPT !.commits = <<sCommit>>, !.today = IsoDate(2027, 1, 5)]}

s111 == <<"1", ".", "1", ".", "1">>
s1110 == <<"1", ".", "1", ".", "1", "0">>

ChangelogVersions == {s190, s1100, s200, s111, s1110}

Section190 == <<sHeading \o s190 \o sDateSep \o IsoDate(2026, 10, 1), sCommit, EmptyStr>>

ChangelogFiles ==
    {[exists |-> FALSE, lines |-> <<EmptyStr>>],
     [exists |-> TRUE, lines |-> <<EmptyStr>>],
     [exists |-> TRUE, lines |-> Section190],
     [exists |-> TRUE, lines |-> <<sTitle, EmptyStr>> \o Section190]}

\* no call yet
NoCall == [cmd |-> "none", opts |-> [version |-> EmptyStr, dryRun |-> FALSE],
           env |-> EnvAllOk, trace |-> <<>>, msgs |-> <<>>, applied |-> FALSE,
           pre |-> <<>>, done |-> {}]

InitChangelog ==
    \E f \in ChangelogFiles, t \in {{}, {sV190}} :
        /\ branches = CleanRepo.branches
        /\ head = CleanRepo.head
        /\ tags = t
        /\ dirty = FALSE
        /\ stash = 0
        /\ gitConfig = DefaultConfig
        /\ versionTxt = CleanRepo.versionTxt
        /\ changelog = f
        /\ run = NoCall
        /\ runs = 0

\* the caller has the value returned: true exactly after writeFileSync.
\* done is the set of versions appended before this call, dry runs apart
Returns(c, version, opts, env) ==
    /\ runs' = runs + 1
    /\ changelog' = c.repo.changelog
    /\ dirty' = c.repo.dirty
    /\ run' = [cmd |-> "appendChangelog", opts |-> [version |-> version, dryRun |-> opts.dryRun],
               env |-> env, trace |-> c.trace, msgs |-> c.msgs,
               applied |-> "changelog" \in c.changed, pre |-> Repo,
               done |-> IF run.cmd = "none" \/ run.opts.dryRun THEN run.done
                        ELSE run.done \cup {run.opts.version}]
    /\ UNCHANGED <<branches, head, tags, stash, gitConfig, versionTxt>>

AppendCall ==
    /\ runs < MaxRuns
    /\ \E version \in ChangelogVersions, dryRun \in BOOLEAN, env \in ChangelogEnvs :
           Returns(appendChangelog(Begin, version, [dryRun |-> dryRun], env),
                   version, [dryRun |-> dryRun], env)

\* git commit of the caller: the working tree is clean again
CommitCall ==
    /\ run.cmd # "none" /\ dirty
    /\ dirty' = FALSE
    /\ UNCHANGED <<branches, head, tags, stash, gitConfig, versionTxt, changelog,
                   run, runs>>

NextChangelogCall == AppendCall \/ CommitCall

SpecChangelog == InitChangelog /\ [][NextChangelogCall]_vars

----------------------------------------------------------------------------
(* runGit and runGitFlow called as functions, one process per call         *)

sNoBranch == <<"n", "o", "n", "e">>

GitCalls ==
    {Cmd("status", <<>>), Cmd("show-ref", <<sMain>>), Cmd("show-ref", <<sNoBranch>>),
     Cmd("checkout", <<sDevelop>>), Cmd("checkout", <<sNoBranch>>),
     Cmd("branch-list", <<EmptyStr>>), Cmd("show-version", <<>>)}

FlowCalls ==
    {CmdF("flow-start", <<sFeature, sA, EmptyStr>>, {}),
     CmdF("flow-finish", <<sFeature, sA, EmptyStr>>, {}),
     CmdF("flow-version", <<>>, {})}

Modes == {Mode(af, dr) : af \in BOOLEAN, dr \in BOOLEAN}

AdapterRepos ==
    {CleanRepo,
     [CleanRepo EXCEPT !.dirty = TRUE],
     [CleanRepo EXCEPT !.branches = @ \cup {FullName(sFeature, sA)},
                       !.head = FullName(sFeature, sA)]}

InitAdapter ==
    \E r \in AdapterRepos :
        /\ branches = r.branches
        /\ head = r.head
        /\ tags = r.tags
        /\ dirty = r.dirty
        /\ stash = r.stash
        /\ gitConfig = r.gitConfig
        /\ versionTxt = r.versionTxt
        /\ changelog = r.changelog
        /\ run = [cmd |-> "none"]
        /\ runs = 0

\* the caller of the adapter has c.ret, or the process has ended
Called(c, fn, cmd, mode, env) ==
    /\ runs' = runs + 1
    /\ branches' = c.repo.branches
    /\ head' = c.repo.head
    /\ tags' = c.repo.tags
    /\ dirty' = c.repo.dirty
    /\ stash' = c.repo.stash
    /\ gitConfig' = c.repo.gitConfig
    /\ versionTxt' = c.repo.versionTxt
    /\ changelog' = c.repo.changelog
    /\ run' = [cmd |-> fn, call |-> cmd, opts |-> mode, env |-> env,
               ret |-> c.ret, status |-> c.status, trace |-> c.trace,
               msgs |-> c.msgs, pre |-> Repo]

RunGitCall ==
    /\ runs < MaxRuns
    /\ \E cmd \in GitCalls, mode \in Modes :
           Called(runGit(Begin, cmd, mode, EnvAllOk), "runGit", cmd, mode, EnvAllOk)

RunGitFlowCall ==
    /\ runs < MaxRuns
    /\ \E cmd \in FlowCalls, mode \in Modes :
           Called(runGitFlow(Begin, cmd, mode, EnvAllOk), "runGitFlow", cmd, mode,
                  EnvAllOk)

NextAdapter == RunGitCall \/ RunGitFlowCall

SpecAdapter == InitAdapter /\ [][NextAdapter]_vars

----------------------------------------------------------------------------
(* scripts/git-flow.js from the command line: parseArgs(argv) and main.    *)
(* The options read here are those of start, finish, publish, track,       *)
(* delete and list; undefined and null are EmptyStr.                       *)

tName == <<"-", "-", "n", "a", "m", "e">>
tBase == <<"-", "-", "b", "a", "s", "e">>
tForce == <<"-", "-", "f", "o", "r", "c", "e">>
tF == <<"-", "f">>
tTag == <<"-", "-", "t", "a", "g">>
tMessage == <<"-", "-", "m", "e", "s", "s", "a", "g", "e">>
tPush == <<"-", "-", "p", "u", "s", "h">>
tKeepBranch == <<"-", "-", "k", "e", "e", "p", "-", "b", "r", "a", "n", "c", "h">>
tOffline == <<"-", "-", "o", "f", "f", "l", "i", "n", "e">>
tDryRun == <<"-", "-", "d", "r", "y", "-", "r", "u", "n">>
tType == <<"-", "-", "t", "y", "p", "e">>
tFetch == <<"-", "-", "f", "e", "t", "c", "h">>
tSquash == <<"-", "-", "s", "q", "u", "a", "s", "h">>
tHelp == <<"-", "-", "h", "e", "l", "p">>
tH == <<"-", "h">>
sPublish == <<"p", "u", "b", "l", "i", "s", "h">>
sTrack == <<"t", "r", "a", "c", "k">>
sDelete == <<"d", "e", "l", "e", "t", "e">>
sList == <<"l", "i", "s", "t">>
sX == <<"x">>

SubCommands == {sRelease, sHotfix, sStart, sFinish, sPublish, sTrack, sDelete}

IsHelp(arg) == arg \in {tHelp, tH}

\* const opts = { command, sub, name: "nextRelease", .. }
DefaultOpts(argv, command, sub) ==
    [argv |-> argv, command |-> command, sub |-> sub, name |-> sNextRelease,
     base |-> EmptyStr, force |-> FALSE, tag |-> EmptyStr, message |-> EmptyStr,
     push |-> FALSE, keepBranch |-> FALSE, offline |-> FALSE, dryRun |-> FALSE,
     targetDir |-> EmptyStr, cloneUrl |-> EmptyStr, type |-> EmptyStr,
     fetch |-> FALSE, squash |-> FALSE, help |-> FALSE, fatal |-> FALSE]

ValueFlags == {tName, tBase, tTag, tMessage, tType}

FieldOf(flag) ==
    CASE flag = tName -> "name" [] flag = tBase -> "base" [] flag = tTag -> "tag"
      [] flag = tMessage -> "message" [] flag = tType -> "type"
      [] flag \in {tForce, tF} -> "force" [] flag = tPush -> "push"
      [] flag = tKeepBranch -> "keepBranch" [] flag = tOffline -> "offline"
      [] flag = tDryRun -> "dryRun" [] flag = tFetch -> "fetch"
      [] flag = tSquash -> "squash" [] OTHER -> "help"

SwitchFlags == {tForce, tF, tPush, tKeepBranch, tOffline, tDryRun, tFetch, tSquash,
                tHelp, tH}

\* the default case of the switch: an argument that is not an option
Positional(o, arg) ==
    IF o.cloneUrl = EmptyStr THEN [o EXCEPT !.cloneUrl = arg]
    ELSE IF o.targetDir = EmptyStr THEN [o EXCEPT !.targetDir = arg]
    ELSE IF o.type = EmptyStr /\ arg \in BranchTypes THEN [o EXCEPT !.type = arg]
    ELSE IF o.name = EmptyStr /\ arg \notin {sStart, sFinish, sPublish, sTrack, sDelete}
    THEN [o EXCEPT !.name = arg]
    ELSE o

\* while (args.length) { const arg = next(); switch (arg) .. }
RECURSIVE ParseLoop(_, _)
ParseLoop(args, o) ==
    IF args = <<>> \/ o.fatal THEN o
    ELSE LET arg == Head(args)
             rest == Tail(args)
         IN  IF arg \in ValueFlags
             THEN IF rest = <<>> \/ rest[1] = EmptyStr
                  THEN [o EXCEPT !.fatal = TRUE]
                  ELSE ParseLoop(Tail(rest), [o EXCEPT ![FieldOf(arg)] = rest[1]])
             ELSE IF arg \in SwitchFlags
             THEN ParseLoop(rest, [o EXCEPT ![FieldOf(arg)] = TRUE])
             ELSE ParseLoop(rest, Positional(o, arg))

\* parseArgs(argv) on the arguments as the shell passes them
parseCommandLine(argv) ==
    LET command == IF Len(argv) >= 1 THEN argv[1] ELSE EmptyStr
        nextArg == IF Len(argv) >= 2 THEN argv[2] ELSE EmptyStr
        args == IF Len(argv) >= 3 THEN SubSeq(argv, 3, Len(argv)) ELSE <<>>
        taken == command \in SubCommands /\ nextArg # EmptyStr /\ ~IsHelp(nextArg)
    IN  ParseLoop(IF IsHelp(nextArg) THEN <<nextArg>> \o args ELSE args,
                  DefaultOpts(argv, command, IF taken THEN nextArg ELSE EmptyStr))

\* listBranchesByType(type)
listBranchesByType(c, type, env) ==
    runGit(getGitFlowConfig(c, env), Cmd("branch-list", <<type \o sSlash>>),
           Mode(TRUE, FALSE), env)

\* commands/list.js
handleList(opts, env) ==
    LET c == Preamble(opts, env) IN
    IF opts.type # EmptyStr THEN Done(listBranchesByType(c, opts.type, env))
    ELSE Done(listBranchesByType(listBranchesByType(listBranchesByType(
                  listBranchesByType(c, sFeature, env), sRelease, env),
                  sHotfix, env), sSupport, env))

\* main: the help of the command, or the handler of the command
main(opts, env) ==
    IF opts.fatal THEN Fatal(Begin, "MissingValue")
    ELSE IF opts.help THEN Done(Begin)
    ELSE CASE opts.command = sStart -> handleStart(opts, env)
           [] opts.command = sFinish -> handleFinish(opts, env)
           [] opts.command = sPublish -> handlePublish(opts, env)
           [] opts.command = sTrack -> handleTrack(opts, env)
           [] opts.command = sDelete -> handleDelete(opts, env)
           [] opts.command = sList -> handleList(opts, env)
           [] OTHER -> Fatal(Begin, "UnknownCommand")

RouterVerbs == {sStart, sFinish, sPublish, sTrack, sDelete}

\* `<verb> <type> <name> [flags]`, `list <type>`, and command lines that
\* give the type and the name by option
RouterArgv ==
    {<<v, t, sA>> \o f : v \in RouterVerbs, t \in BranchTypes,
                         f \in {<<>>, <<tDryRun>>, <<tForce>>}}
    \cup {<<sList, t>> : t \in BranchTypes}
    \cup {<<sList>>, <<sList, tType, sFeature>>, <<sStart, tHelp>>,
          <<sStart, sFeature, sA, tBase>>}
    \cup {<<v, sX, tType, t, tName, sA>> : v \in RouterVerbs, t \in {sFeature, sRelease}}
    \cup {<<sFinish, sX, tType, sRelease, tName, sA, tTag, sV190, tMessage, sMsg>>}
    \cup {<<sStart, sFeature, sA, sX, sFeature>>}

RouterInit ==
    \E r \in {CleanRepo,
              [CleanRepo EXCEPT !.branches = @ \cup {FullName(sFeature, sA)}],
              [CleanRepo EXCEPT !.branches = @ \cup {FullName(sRelease, sA)}],
              [CleanRepo EXCEPT !.branches = @ \cup {FullName(sFeature, sNextRelease)}]} :
        /\ branches = r.branches
        /\ head = r.head
        /\ tags = r.tags
        /\ dirty = r.dirty
        /\ stash = r.stash
        /\ gitConfig = r.gitConfig
        /\ versionTxt = r.versionTxt
        /\ changelog = r.changelog
        /\ run = NoRun
        /\ runs = 0

MainCmd ==
    /\ CanRun
    /\ \E argv \in RouterArgv, env \in {EnvAllOk, [EnvAllOk EXCEPT !.toolOk = FALSE]} :
           Finish(main(parseCommandLine(argv), env), "main", parseCommandLine(argv), env)

NextRouter == MainCmd \/ Prompt

SpecRouter == RouterInit /\ [][NextRouter]_vars

----------------------------------------------------------------------------
(* lib/version.js called as functions                                      *)

\* the numbers of the versions that are tried
Parts == {0, 1, 2, 9, 10, 99}

\* x.y.z written out
VersionText(x, y, z) == NumToStr(x) \o sDot \o NumToStr(y) \o sDot \o NumToStr(z)

ValidTexts ==
    {VersionText(0, 0, 0), VersionText(1, 9, 0), VersionText(1, 10, 0),
     VersionText(1, 9, 9), VersionText(1, 9, 10), VersionText(2, 0, 0),
     VersionText(10, 0, 0), VersionText(9, 99, 99)}

InvalidTexts ==
    {s1023, <<"1", ".", "2">>, <<"1", ".", "2", ".", "3", ".", "4">>, <<"0", "1", ".", "2", ".", "3">>, <<"v", "1", ".", "2", ".", "3">>,
     <<"1", ".", ".", "3">>, <<"1", ".", "2", ".", "x">>, <<"1", ".", "2", ".", "3", " ">>, EmptyStr}

Kinds == {sMajor, sMinor, sPatch, EmptyStr, <<"M", "A", "J", "O", "R">>, <<"P", "a", "t", "c", "h">>, <<"b", "u", "i", "l", "d">>}

NoCallYet == [cmd |-> "none", a |-> EmptyStr, b |-> EmptyStr, kind |-> EmptyStr, ret |-> 0]

InitVersion ==
    /\ branches = CleanRepo.branches
    /\ head = CleanRepo.head
    /\ tags = CleanRepo.tags
    /\ dirty = FALSE
    /\ stash = 0
    /\ gitConfig = DefaultConfig
    /\ versionTxt = CleanRepo.versionTxt
    /\ changelog = CleanRepo.changelog
    /\ run = NoCallYet @@ [prev |-> NoCallYet]
    /\ runs = 0

\* the value is with the caller; prev is the call before this one
Value(fn, a, b, kind, ret) ==
    /\ runs < MaxRuns
    /\ runs' = runs + 1
    /\ run' = [cmd |-> fn, a |-> a, b |-> b, kind |-> kind, ret |-> ret,
               prev |-> [cmd |-> run.cmd, a |-> run.a, b |-> run.b,
                         kind |-> run.kind, ret |-> run.ret]]
    /\ UNCHANGED <<branches, head, tags, dirty, stash, gitConfig, versionTxt, changelog>>

ValidateCall ==
    \E a \in ValidTexts \cup InvalidTexts :
        Value("validateVersion", a, EmptyStr, EmptyStr, validateVersion(a))

\* parseVersion returns an object for every string
ParseCall ==
    \E a \in ValidTexts \cup InvalidTexts :
        Value("parseVersion", a, EmptyStr, EmptyStr,
              [isNull |-> FALSE, value |-> parseVersion(a)])

CompareCall ==
    \E a \in ValidTexts, b \in ValidTexts :
        Value("compareVersions", a, b, EmptyStr, compareVersions(a, b))

\* on a version that is given, or on the version that the call before has
\* returned
IncrementCall ==
    \E a \in ValidTexts \cup (IF run.cmd = "incrementVersion" THEN {run.ret} ELSE {}),
       kind \in Kinds :
        Value("incrementVersion", a, EmptyStr, kind, incrementVersion(a, kind))

NextVersion == ValidateCall \/ ParseCall \/ CompareCall \/ IncrementCall

SpecVersion == InitVersion /\ [][NextVersion]_vars

----------------------------------------------------------------------------
(* updateVersionFile of operations/release.js and readVersion of           *)
(* lib/version.js called as functions                                      *)

sNotes == <<"n", "o", "t", "e", "s">>

VersionFiles ==
    {[exists |-> TRUE, lines |-> <<s190, EmptyStr>>],
     [exists |-> TRUE, lines |-> <<s190>>],
     [exists |-> TRUE, lines |-> <<s190, sNotes, EmptyStr>>],
     [exists |-> TRUE, lines |-> <<EmptyStr, s190, EmptyStr>>],
     [exists |-> TRUE, lines |-> <<<<" ">> \o s190 \o <<" ">>, s180, sNotes>>],
     [exists |-> TRUE, lines |-> <<sNotes, s190, EmptyStr>>],
     [exists |-> FALSE, lines |-> <<EmptyStr>>]}

NoFileCall == [cmd |-> "none", version |-> EmptyStr, dryRun |-> FALSE, ret |-> EmptyStr,
               applied |-> FALSE, status |-> "run", pre |-> <<>>]

InitVersionFile ==
    \E f \in VersionFiles :
        /\ branches = CleanRepo.branches
        /\ head = CleanRepo.head
        /\ tags = CleanRepo.tags
        /\ dirty = FALSE
        /\ stash = 0
        /\ gitConfig = DefaultConfig
        /\ versionTxt = f
        /\ changelog = CleanRepo.changelog
        /\ run = NoFileCall @@ [prev |-> NoFileCall]
        /\ runs = 0

\* the function has returned to its caller, or has ended the process
FileCalled(c, fn, version, dryRun) ==
    /\ runs < MaxRuns
    /\ runs' = runs + 1
    /\ versionTxt' = c.repo.versionTxt
    /\ dirty' = c.repo.dirty
    /\ run' = [cmd |-> fn, version |-> version, dryRun |-> dryRun, ret |-> c.current,
               applied |-> "version" \in c.changed, status |-> c.status, pre |-> Repo,
               prev |-> [cmd |-> run.cmd, version |-> run.version,
                         dryRun |-> run.dryRun, ret |-> run.ret,
                         applied |-> run.applied, status |-> run.status,
                         pre |-> run.pre]]
    /\ UNCHANGED <<branches, head, tags, stash, gitConfig, changelog>>

UpdateVersionCall ==
    \E version \in {s190, s191, s1100, s200}, dryRun \in BOOLEAN :
        FileCalled(updateVersionFile([Begin EXCEPT !.version = version],
                                     [dryRun |-> dryRun]),
                   "updateVersionFile", version, dryRun)

ReadVersionCall == FileCalled(readVersion(Begin), "readVersion", EmptyStr, FALSE)

NextVersionFile == UpdateVersionCall \/ ReadVersionCall

SpecVersionFile == InitVersionFile /\ [][NextVersionFile]_vars

----------------------------------------------------------------------------
(* Properties.  run is the report of the invocation that has just ended:  *)
(* run.pre is the repository before it, the variables are the repository  *)
(* after it, run.trace the subprocesses executed and the files written.    *)

Verbs(trace) == {trace[i].verb : i \in 1..Len(trace)}

Mutating == {"checkout", "pull", "push", "merge", "commit", "branch-D",
             "stash-push", "stash-pop", "config-set", "flow-init", "flow-start",
             "flow-finish", "flow-track", "flow-delete", "flow-publish",
             "write-version", "write-changelog"}

Remote == {"pull", "push", "fetch", "ls-remote"}

FilesKept == versionTxt = run.pre.versionTxt /\ changelog = run.pre.changelog

\* the checks that every handler makes first would pass
Healthy == run.env.gfAvail /\ Initialized(run.pre) /\ ~run.pre.dirty

\* C1: when dryRun is set, no command executes a subprocess that mutates the
\* repository or the working copy, and neither version.txt nor CHANGELOG.md
\* is written.  sync --dry-run runs git stash push and git stash pop, and
\* config --set --dry-run runs git config <key> <value>.
C1_DryRunMutatesNothing ==
    (~Idle /\ run.opts.dryRun) =>
        (Verbs(run.trace) \cap Mutating = {} /\ FilesKept)

\* a dry run of sync on uncommitted changes stashes and restores them
C1_Observed ==
    /\ run.cmd = "sync" /\ run.opts.dryRun /\ run.pre.dirty
    /\ {"stash-push", "stash-pop"} \subseteq Verbs(run.trace)
    /\ run.status = "exit0"

\* C2: when offline is set, a command issues no pull, push, fetch or
\* ls-remote.  sync --offline runs git ls-remote (detectMainBranch) and
\* git push origin (pushBranch).
C2_OfflineIsLocal ==
    (run.cmd \in {"start", "finish", "release-start", "release-finish",
                  "hotfix-start", "hotfix-finish", "sync"} /\ run.opts.offline) =>
        Verbs(run.trace) \cap Remote = {}

\* an offline sync that has asked origin for its heads and pushed to it
C2_Observed ==
    /\ run.cmd = "sync" /\ run.opts.offline /\ ~run.opts.dryRun
    /\ {"ls-remote", "push"} \subseteq Verbs(run.trace)
    /\ run.status = "exit0"

PreconditionErrors == {"DirtyTree", "BranchNotFound", "BranchAlreadyExists",
                       "DuplicateTag", "MissingRequiredOption", "MissingArgument",
                       "InvalidBranchName", "InvalidVersionFormat",
                       "VersionRegression"}

\* C3: every precondition check comes before the first checkout, pull,
\* branch deletion or workflow start/finish, so a run that ends in a
\* precondition failure has changed neither the branches, nor HEAD, nor a
\* file.  finish checks the base branch after it has checked out and pulled
\* the branch; start checks that the branch is missing after pulling the base.
C3_ChecksBeforeMutation ==
    (~Idle /\ run.status = "exit1" /\ run.err \in PreconditionErrors) =>
        /\ Verbs(run.trace)
              \cap {"checkout", "pull", "branch-D", "flow-start", "flow-finish"} = {}
        /\ branches = run.pre.branches
        /\ head = run.pre.head
        /\ FilesKept

\* a finish that found the base branch missing after it had moved HEAD
C3_Observed ==
    /\ run.cmd = "finish" /\ run.err = "BranchNotFound"
    /\ "pull" \in Verbs(run.trace)
    /\ head # run.pre.head

\* `release start --bump minor --yes` of scripts/git-flow.js, not a dry run,
\* on a healthy repository at version 1.9.0 without release branches
ScenarioC4 ==
    /\ run.cmd = "release-start"
    /\ run.opts.script = "git-flow" /\ run.opts.name = sNextRelease
    /\ run.opts.bump = sMinor /\ run.opts.yes /\ run.opts.version = EmptyStr
    /\ ~run.opts.dryRun /\ ~run.opts.noChangelog /\ ~run.opts.push
    /\ run.env = EnvAllOk /\ Healthy
    /\ {sMain, sDevelop} \subseteq run.pre.branches
    /\ \A b \in run.pre.branches : ~StartsWith(b, sRelease)
    /\ run.pre.versionTxt.exists
    /\ FirstLineTrimmed(run.pre.versionTxt.lines) = s190

\* C4: at version 1.9.0 the command line `release start --bump minor --yes`
\* resolves 1.10.0, creates the branch release/v1.10.0, rewrites the first
\* line of version.txt to 1.10.0 and prepends the changelog section
\* `## v1.10.0 - <today>`.  The branch created is release/vnextRelease.
C4_ReleaseStartScenario ==
    ScenarioC4 =>
        /\ run.status = "exit0"
        /\ run.version = s1100
        /\ FullName(sRelease, sV \o s1100) \in branches
        /\ versionTxt.lines[1] = s1100
        /\ changelog.exists
        /\ changelog.lines[1] = sHeading \o s1100 \o sDateSep \o run.env.today

\* what the scenario of C4 does otherwise
C4_Observed == ScenarioC4 /\ FullName(sRelease, sV \o sNextRelease) \in branches

StartsVersioned == run.cmd \in {"release-start", "hotfix-start"}

\* a is an earlier version than b, both x.y.z
Precedes(a, b) ==
    LET pa == parseVersion(a)
        pb == parseVersion(b)
    IN  \/ pa.major < pb.major
        \/ pa.major = pb.major /\ pa.minor < pb.minor
        \/ pa.major = pb.major /\ pa.minor = pb.minor /\ pa.patch < pb.patch

\* the run has read the current version and resolved a well-formed target
Resolved == StartsVersioned /\ run.current # EmptyStr /\ validateVersion(run.version)

\* C5: release/hotfix start rejects (exit 1) a resolved version that is
\* earlier than the current one, before any pull, branch creation or file
\* write; a resolved version that is not earlier is not rejected for it.
C5_RegressionRejected ==
    Resolved =>
        IF Precedes(run.version, run.current)
        THEN /\ run.status = "exit1" /\ run.err = "VersionRegression"
             /\ Verbs(run.trace) \cap Mutating = {}
             /\ branches = run.pre.branches
             /\ FilesKept
        ELSE run.err # "VersionRegression"

C5_Witness ==
    /\ Resolved /\ run.err = "VersionRegression"
    /\ run.opts.version = s180 /\ run.current = s190 /\ ~run.opts.offline

\* the kind of bump when --bump is absent
DefaultKind == IF run.cmd = "hotfix-start" THEN sPatch ELSE sMinor

Kind == IF run.opts.bump # EmptyStr THEN run.opts.bump ELSE DefaultKind

InvalidRejected == run.status = "exit1" /\ run.err = "InvalidVersionFormat"

\* the operator was asked and did not accept the proposed version
Declined ==
    /\ run.cmd = "release-start" /\ ~run.opts.yes
    /\ ~(run.env.answer = EmptyStr \/ run.env.answer[1] \in {"y", "Y"})

\* C6 as stated: the target version is --version when one is given (an
\* invalid one is fatal), whatever --bump is; otherwise bump(current, kind),
\* kind defaulting to patch for hotfix and minor for release.
C6_VersionOrBump ==
    (StartsVersioned /\ run.current # EmptyStr) =>
        IF run.opts.version # EmptyStr
        THEN IF validateVersion(run.opts.version)
             THEN run.version = run.opts.version ELSE InvalidRejected
        ELSE run.version = incrementVersion(run.current, Kind)

\* C6, amended: without --version, release start asks the operator unless
\* --yes (or CI) is set; the target is bump(current, kind) when the operator
\* is not asked or accepts, and the version typed at the second prompt (an
\* invalid one is fatal) when the operator declines.
C6_VersionOrBumpOrTyped ==
    (StartsVersioned /\ run.current # EmptyStr) =>
        IF run.opts.version # EmptyStr
        THEN IF validateVersion(run.opts.version)
             THEN run.version = run.opts.version ELSE InvalidRejected
        ELSE IF Declined
        THEN IF validateVersion(run.env.custom)
             THEN run.version = run.env.custom ELSE InvalidRejected
        ELSE run.version = incrementVersion(run.current, Kind)

C6_Witness ==
    /\ run.cmd = "release-start" /\ Declined
    /\ run.opts.version = EmptyStr /\ run.current = s190
    /\ run.version = s200 /\ run.status = "exit0"

FinishesTagged ==
    \/ run.cmd = "finish" /\ run.opts.type \in {sRelease, sHotfix}
    \/ run.cmd \in {"release-finish", "hotfix-finish"}

\* C7: finish of a release or hotfix without --tag or without --message
\* ends with exit 1 and has issued no checkout, pull, workflow finish, tag
\* or branch deletion; the error is MissingRequiredOption when the checks
\* made before it (git-flow, clean tree, branches) pass.
C7_FinishNeedsTagAndMessage ==
    (FinishesTagged /\ (run.opts.tag = EmptyStr \/ run.opts.message = EmptyStr)) =>
        /\ run.status = "exit1"
        /\ Verbs(run.trace) \cap Mutating = {}
        /\ branches = run.pre.branches /\ tags = run.pre.tags /\ head = run.pre.head
        /\ run.err \in {"MissingRequiredOption", "GitFlowMissing", "NotInitialized",
                        "DirtyTree", "BranchNotFound"}
        /\ (Healthy /\ {sMain, sDevelop, FullName(run.opts.type, run.opts.name)}
                           \subseteq run.pre.branches)
               => run.err = "MissingRequiredOption"

C7_Witness ==
    /\ run.cmd = "finish" /\ run.opts.type = sRelease
    /\ run.opts.tag = EmptyStr /\ run.opts.message = sMsg
    /\ ~run.opts.offline /\ ~run.opts.dryRun
    /\ run.err = "MissingRequiredOption"

\* C8: when the tag given to finish exists already, finish fails with
\* DuplicateTag and issues no pull and no workflow finish.  With the tag
\* 1.9.0 in the repository and --tag 1.9.0, ensureTagMissing looks for
\* v1.9.0, finds nothing, and the pull and the finish are issued.
C8_DuplicateTagStopsFinish ==
    (run.cmd = "finish" /\ run.opts.tag \in run.pre.tags) =>
        /\ run.status = "exit1"
        /\ Verbs(run.trace) \cap {"pull", "flow-finish"} = {}
        /\ (Healthy /\ FullName(run.opts.type, run.opts.name) \in run.pre.branches
            /\ run.opts.message # EmptyStr)
               => run.err = "DuplicateTag"

\* the finish issued for --tag 1.9.0 although the tag 1.9.0 exists
C8_Observed ==
    /\ run.cmd = "finish" /\ run.opts.tag = s190 /\ s190 \in run.pre.tags
    /\ {"pull", "flow-finish"} \subseteq Verbs(run.trace)

HasSpace(name) == \E i \in 1..Len(name) : name[i] = " "

C10_DryRunStartCreatesNothing ==
    (run.cmd = "start" /\ run.opts.dryRun) =>
        /\ branches = run.pre.branches
        /\ head = run.pre.head
        /\ "flow-start" \notin Verbs(run.trace)

\* a dry run of a start that would have created the branch
C10_Witness ==
    /\ run.cmd = "start" /\ run.opts.dryRun /\ run.status = "exit0"
    /\ FullName(run.opts.type, run.opts.name) \notin branches
    /\ \E i \in 1..Len(run.msgs) :
           run.msgs[i] = [kind |-> "dry-run", text |-> "flow-start"]

\* the branch that start, finish, publish and delete are about
Subject == FullName(run.opts.type, run.opts.name)

\* the checks of handleStart that come before the lookup of the branch pass
StartChecksPass ==
    /\ Healthy
    /\ validateBranchName(run.opts.name, run.opts.type)
    /\ StartBase(run.opts) \in run.pre.branches

\* C11: start without force on a branch that exists ends with exit 1
\* (BranchAlreadyExists when the earlier checks pass), issues no workflow
\* start and leaves the set of branches as it was; start without force on a
\* branch that is missing, not a dry run, with the earlier checks passing
\* and the workflow tool working, ends with exit 0 and the branch exists.
C11_StartEdge ==
    (run.cmd = "start" /\ ~run.opts.force) =>
        IF Subject \in run.pre.branches
        THEN /\ run.status = "exit1"
             /\ "flow-start" \notin Verbs(run.trace)
             /\ branches = run.pre.branches
             /\ StartChecksPass => run.err = "BranchAlreadyExists"
        ELSE (StartChecksPass /\ ~run.opts.dryRun /\ run.env.toolOk) =>
                 /\ run.status = "exit0"
                 /\ branches = run.pre.branches \cup {Subject}

\* a second start of the branch that the first start created
C11_Witness ==
    /\ run.cmd = "start" /\ ~run.opts.force /\ ~run.opts.dryRun
    /\ Subject \in run.pre.branches /\ StartChecksPass
    /\ run.err = "BranchAlreadyExists"
    /\ run.opts.fetch /\ ~run.opts.offline

\* position of the first subprocess with this verb in the trace, 0 if none
FirstOf(trace, verb) ==
    IF verb \in Verbs(trace)
    THEN CHOOSE i \in 1..Len(trace) :
             trace[i].verb = verb /\ \A k \in 1..(i - 1) : trace[k].verb # verb
    ELSE 0

\* start --force on a branch that exists, with everything else in order
ForcedRestart ==
    /\ run.cmd = "start" /\ run.opts.force /\ ~run.opts.dryRun
    /\ Subject \in run.pre.branches /\ StartChecksPass /\ run.env.toolOk

\* C12: start with force on a branch that exists deletes the local branch
\* (git branch -D), then creates it from the base with the workflow tool,
\* and ends with exit 0 and the branch existing.  start.js calls runGit
\* without importing it: the force branch throws a ReferenceError, no
\* branch is deleted or created and the run ends with exit 1.
C12_ForceRecreates ==
    ForcedRestart =>
        /\ run.status = "exit0"
        /\ FirstOf(run.trace, "branch-D") > 0
        /\ FirstOf(run.trace, "branch-D") < FirstOf(run.trace, "flow-start")
        /\ Subject \in branches

\* the forced start that ended in the ReferenceError
C12_Observed ==
    /\ ForcedRestart
    /\ run.status = "exit1" /\ run.err = "UnexpectedError"
    /\ Verbs(run.trace) \cap {"branch-D", "flow-start"} = {}
    /\ \E i \in 1..Len(run.msgs) : run.msgs[i] = [kind |-> "warn", text |-> "Force mode"]

\* the subcommands of the workflow tool that act on a branch
FlowCommands == {"flow-start", "flow-finish", "flow-publish", "flow-track",
                 "flow-delete"}

\* the checks that finish, publish and delete make before they look the
\* branch up pass
LookupReached ==
    /\ run.env.gfAvail /\ Initialized(run.pre)
    /\ run.cmd = "finish" => ~run.pre.dirty

\* C13: finish, publish and delete of a branch that does not exist end with
\* exit 1 (BranchNotFound when the earlier checks pass) without a command
\* of the workflow tool, a checkout, a pull or a branch deletion; branches,
\* tags, HEAD and the two files are as before.
C13_MissingBranchRejected ==
    (run.cmd \in {"finish", "publish", "delete"} /\ Subject \notin run.pre.branches) =>
        /\ run.status = "exit1"
        /\ Verbs(run.trace) \cap (FlowCommands \cup Mutating) = {}
        /\ branches = run.pre.branches /\ tags = run.pre.tags /\ head = run.pre.head
        /\ FilesKept
        /\ LookupReached => run.err = "BranchNotFound"

\* a finish, with a tag and a message, of a branch that is not there
C13_Witness ==
    /\ run.cmd = "finish" /\ Subject \notin run.pre.branches
    /\ run.opts.tag = sV190 /\ run.opts.message = sMsg
    /\ ~run.opts.dryRun /\ ~run.opts.offline
    /\ run.err = "BranchNotFound" /\ run.env.toolOk

\* a finish that was not a dry run and ended with exit 0
FinishSucceeded ==
    /\ run.cmd = "finish" /\ ~run.opts.dryRun /\ run.status = "exit0"
    /\ Subject \in run.pre.branches

\* C14: after a successful finish that is not a dry run the local branch is
\* gone, unless keepBranch is set: then the branch is still there and no
\* git branch -D was issued.  finish.js never passes -k to the workflow
\* tool, whose finish deletes the branch it has merged: with keepBranch no
\* git branch -D is issued and the branch is gone all the same.
C14_KeepBranchRetains ==
    FinishSucceeded =>
        IF run.opts.keepBranch
        THEN Subject \in branches /\ "branch-D" \notin Verbs(run.trace)
        ELSE Subject \notin branches

\* the finish with --keep-branch after which the branch is missing
C14_Observed ==
    /\ FinishSucceeded /\ run.opts.keepBranch
    /\ "branch-D" \notin Verbs(run.trace)
    /\ "flow-finish" \in Verbs(run.trace)
    /\ \A i \in 1..Len(run.trace) :
           run.trace[i].verb = "flow-finish" => "-k" \notin run.trace[i].flags
    /\ Subject \notin branches

\* the flags of the workflow delete commands that the run has issued
DeleteFlags ==
    UNION {run.trace[i].flags : i \in {k \in 1..Len(run.trace) :
                                           run.trace[k].verb = "flow-delete"}}

ForceWarned ==
    \E i \in 1..Len(run.msgs) : run.msgs[i] = [kind |-> "warn", text |-> "Force delete"]

\* C15: the delete command sent to the workflow tool is the forced one
\* (-f) exactly when force is set, and a delete with force that has reached
\* the tool has logged a warning.  handleDelete computes the flag into
\* _flag and does not use it: the command is `<type> delete <name>` with
\* and without force.
C15_ForceSwitchesDelete ==
    (run.cmd = "delete" /\ "flow-delete" \in Verbs(run.trace)) =>
        /\ run.opts.force <=> "-f" \in DeleteFlags
        /\ (run.opts.force /\ run.status = "exit0") => ForceWarned

\* a forced delete that sent the command of a safe delete
C15_Observed ==
    /\ run.cmd = "delete" /\ run.opts.force /\ ~run.opts.dryRun
    /\ run.status = "exit0" /\ ForceWarned
    /\ "flow-delete" \in Verbs(run.trace) /\ DeleteFlags = {}
    /\ Subject \in run.pre.branches /\ Subject \notin branches

Finalizing == run.cmd \in {"finalize", "finalize-merging"}

\* the run had no --branch and has listed the branches
Resolving ==
    /\ Finalizing /\ run.opts.branch = EmptyStr
    /\ "branch-list" \in Verbs(run.trace)

\* the release/* and hotfix/* branches, of the requested type if there is one
Eligible ==
    {b \in run.pre.branches :
        \/ run.opts.type \in {EmptyStr, sRelease} /\ StartsWith(b, sReleaseSlash)
        \/ run.opts.type \in {EmptyStr, sHotfix} /\ StartsWith(b, sHotfixSlash)}

Prompted == "prompt" \in Verbs(run.trace)

\* the answers that name an entry of a list of n
ValidAnswers(n) == {NumToStr(i) : i \in 1..n}

\* C16: without --branch the candidates are the release/* and hotfix/*
\* branches of the requested type (of both when no type is given).  None:
\* the run ends with exit 1.  One: it is selected without a prompt.  More
\* than one with --yes or CI: the run ends with exit 1 (AmbiguousBranch)
\* without a prompt.  More than one otherwise: the operator is shown the
\* candidates numbered from 1, one line each, and is asked; an answer that
\* is not one of the numbers ends the run with exit 1, and the answer i
\* selects the i-th candidate.
C16_BranchResolution ==
    Resolving =>
        /\ SeqToSet(run.menu) = Eligible /\ Len(run.menu) = Cardinality(Eligible)
        /\ Cardinality(Eligible) = 0 =>
               run.status = "exit1" /\ run.err = "NoCandidates" /\ ~Prompted
        /\ Cardinality(Eligible) = 1 => run.target \in Eligible /\ ~Prompted
        /\ (Cardinality(Eligible) > 1 /\ (run.opts.yes \/ run.opts.ci)) =>
               run.status = "exit1" /\ run.err = "AmbiguousBranch" /\ ~Prompted
        /\ (Cardinality(Eligible) > 1 /\ ~run.opts.yes /\ ~run.opts.ci) =>
               /\ Prompted
               /\ run.shown = [i \in 1..Len(run.menu) |->
                                  NumToStr(i) \o <<".", " ">> \o run.menu[i]]
               /\ IF run.env.answer \in ValidAnswers(Cardinality(Eligible))
                  THEN run.shown[ToNumber(run.env.answer)]
                           = run.env.answer \o <<".", " ">> \o run.target
                  ELSE run.status = "exit1" /\ run.err = "InvalidSelection"

\* the operator picks the second of a release and a hotfix
C16_Witness ==
    /\ Resolving /\ run.cmd = "finalize" /\ run.opts.type = EmptyStr
    /\ ~run.opts.yes /\ Prompted
    /\ Eligible = {sRelease1100, sHotfix191}
    /\ run.env.answer = <<"2">> /\ run.target = sHotfix191

\* the selected branch carries a version that is not the first line of
\* version.txt
Mismatch ==
    /\ Finalizing /\ run.target # EmptyStr /\ VersionStarts(run.target) # {}
    /\ run.pre.versionTxt.exists
    /\ BranchVersion(run.target) # FirstLineTrimmed(run.pre.versionTxt.lines)

MismatchWarned ==
    \E i \in 1..Len(run.msgs) :
        run.msgs[i] = [kind |-> "warn", text |-> "Branch version differs from version.txt"]

\* the tags and tag messages that the run has asked for
TagsAsked ==
    {<<run.trace[i].args[3], run.trace[i].args[4]>> :
        i \in {k \in 1..Len(run.trace) : run.trace[k].verb = "flow-finish"}}
    \cup {<<run.trace[i].args[1], run.trace[i].args[2]>> :
        i \in {k \in 1..Len(run.trace) : run.trace[k].verb = "tag-a"}}

\* C17: a finalize of a branch whose version differs from version.txt tags
\* v<version of the branch> with the message of that version, logs a
\* warning about the difference and leaves version.txt alone.  The edition
\* that calls handleRelease/handleHotfix never reads version.txt and logs
\* no warning; the edition that merges by itself logs the warning and tags
\* the version of version.txt.
C17_BranchVersionIsAuthoritative ==
    (Mismatch /\ run.status = "exit0" /\ ~run.opts.dryRun) =>
        /\ TagsAsked = {<<sV \o BranchVersion(run.target),
                          sReleaseVersion \o BranchVersion(run.target)>>}
        /\ tags = run.pre.tags \cup {sV \o BranchVersion(run.target)}
        /\ MismatchWarned
        /\ versionTxt = run.pre.versionTxt

\* release/v1.10.0 finalized over a version.txt of 1.9.0 without a warning
C17_Observed ==
    /\ Mismatch /\ run.cmd = "finalize" /\ run.status = "exit0" /\ ~run.opts.dryRun
    /\ run.target = sRelease1100 /\ run.pre.versionTxt.lines[1] = s190
    /\ tags = run.pre.tags \cup {sV \o s1100}
    /\ ~MismatchWarned
    /\ \A i \in 1..Len(run.msgs) : run.msgs[i].kind # "warn"

\* the same branch finalized by the merging edition: the tag is v1.9.0
C17_ObservedMerging ==
    /\ Mismatch /\ run.cmd = "finalize-merging" /\ run.status = "exit0"
    /\ ~run.opts.dryRun
    /\ run.target = sRelease1100 /\ MismatchWarned
    /\ tags = run.pre.tags \cup {sV \o s190}

\* the file has a section for the version
Headed(file, version) ==
    /\ file.exists
    /\ \E i \in 1..Len(file.lines) : StartsWith(file.lines[i], sHeading \o version)

\* how many subprocesses of the trace have this verb
Count(trace, verb) == Cardinality({i \in 1..Len(trace) : trace[i].verb = verb})

\* the version that a finish is about: tag.replace(/^v/, "")
FinishVersion ==
    IF run.cmd = "finalize" THEN run.version ELSE StripV(run.opts.tag)

\* a finish of a release or a hotfix, not a dry run and not told to skip
\* the changelog, that has issued the workflow finish
FinishIssued ==
    /\ run.cmd \in {"finalize", "release-finish", "hotfix-finish-changelog"}
    /\ ~run.opts.noChangelog /\ ~run.opts.dryRun
    /\ "flow-finish" \in Verbs(run.trace)

C18_WitnessPresent ==
    /\ FinishIssued /\ run.cmd = "finalize" /\ run.status = "exit0"
    /\ Headed(run.pre.changelog, s1100) /\ changelog = run.pre.changelog

\* a call of appendChangelog has returned
Appended == run.cmd = "appendChangelog"

\* C19: appending a section twice for one version is idempotent: once
\* appendChangelog(V) has been called outside of a dry run, whatever the
\* history of commits, a later appendChangelog(V) returns false and leaves
\* CHANGELOG.md as it was
C19_AppendIdempotent ==
    (Appended /\ run.opts.version \in run.done) =>
        /\ ~run.applied
        /\ changelog = run.pre.changelog

\* 2.0.0 is in no file at the start: the first call has written its section
\* and a second call outside of a dry run, with commits to list, has left
\* the file alone
C19_Witness ==
    /\ Appended /\ run.opts.version = s200 /\ s200 \in run.done
    /\ ~run.opts.dryRun /\ run.env.commits # <<>>
    /\ ~run.applied
    /\ StartsWith(changelog.lines[1], sHeading \o s200)
    /\ changelog = run.pre.changelog

\* the text `## v<version>` is somewhere in the file
HeadingIn(file, version) ==
    /\ file.exists
    /\ \E i \in 1..Len(file.lines) : Includes(file.lines[i], sHeading \o version)

\* the content of a file as lines; a file that is not there has no content
ContentOf(file) == IF file.exists THEN file.lines ELSE <<EmptyStr>>

\* yyyy-mm-dd
IsIsoDate(d) ==
    /\ Len(d) = 10
    /\ d[5] = "-" /\ d[8] = "-"
    /\ \A i \in {1, 2, 3, 4, 6, 7, 9, 10} : d[i] \in Digits

\* the lines of the section: the subjects since the last tag, or the
\* placeholder
Entries == IF run.env.commits = <<>> THEN <<sInternal>> ELSE run.env.commits

\* the history was asked for since the last tag, or whole without a tag
SinceLastTag ==
    /\ Count(run.trace, "log") = 1
    /\ LET asked == run.trace[FirstOf(run.trace, "log")].args IN
       IF run.pre.tags = {} THEN asked = <<>>
       ELSE Len(asked) = 1 /\ asked[1] \in run.pre.tags

\* C20: outside of a dry run, appendChangelog(V) on a file without V's
\* heading writes the line `## v<V> - <yyyy-mm-dd>`, then the commit lines
\* since the last tag or the one line `- Internal changes`, then a newline
\* and the whole previous content as a suffix, and returns true; in a dry
\* run it returns false and writes nothing
C20_SectionWritten ==
    (Appended /\ ~HeadingIn(run.pre.changelog, run.opts.version)) =>
        IF run.opts.dryRun
        THEN /\ ~run.applied
             /\ changelog = run.pre.changelog
             /\ Count(run.trace, "write-changelog") = 0
        ELSE /\ run.applied
             /\ changelog.exists
             /\ IsIsoDate(run.env.today)
             /\ changelog.lines =
                    <<sHeading \o run.opts.version \o <<" ", "-", " ">> \o run.env.today>>
                    \o Entries \o ContentOf(run.pre.changelog)
             /\ Len(Entries) >= 1
             /\ SinceLastTag
             /\ Count(run.trace, "write-changelog") = 1

\* a section with two commit lines written above a file that had a title
\* and the section of 1.9.0
C20_Witness ==
    /\ Appended /\ ~run.opts.dryRun /\ run.applied
    /\ run.opts.version = s1100 /\ run.done = {}
    /\ run.pre.changelog.exists /\ Len(run.pre.changelog.lines) = 5
    /\ run.pre.tags = {sV190}
    /\ run.env.commits = <<sCommit, sCommit2>>
    /\ Len(changelog.lines) = 8
    /\ changelog.lines[4] = sTitle

\* no commit since the tag: the section holds the placeholder line
C20_WitnessPlaceholder ==
    /\ Appended /\ ~run.opts.dryRun /\ run.applied
    /\ run.env.commits = <<>>
    /\ ~run.pre.changelog.exists
    /\ changelog.lines[2] = sInternal /\ Len(changelog.lines) = 3

\* a dry run on a file without the heading
C20_WitnessDryRun ==
    /\ Appended /\ run.opts.dryRun /\ ~run.applied
    /\ ~HeadingIn(run.pre.changelog, run.opts.version)
    /\ run.pre.changelog.exists /\ changelog = run.pre.changelog

\* a call of the adapter has returned or has ended the process
AdapterCalled == run.cmd \in {"runGit", "runGitFlow"}

\* what the subprocess does in the repository of the call
Subprocess == GitExec(run.pre, run.call, run.env)

\* the text has no white space and no empty line at either end
IsTrimmed(lines) ==
    lines # <<>> =>
        /\ lines[1] # EmptyStr /\ lines[1][1] \notin Whitespace
        /\ lines[Len(lines)] # EmptyStr
        /\ lines[Len(lines)][Len(lines[Len(lines)])] \notin Whitespace

\* the lines of the text that are not blank, each without the white space
\* around it
Words(lines) ==
    LET kept == SelectSeq(lines, LAMBDA l : ~(\A i \in 1..Len(l) : l[i] \in Whitespace))
    IN  [i \in 1..Len(kept) |-> Trim(kept[i])]

\* C21: runGit and runGitFlow alike: in a dry run the command is not executed
\* and the result is the empty string, also when allowFail is set and the
\* command would fail; otherwise an exit status of zero returns the trimmed
\* output; otherwise the result is null and the run continues when allowFail
\* is set, and the process ends with status 1 when it is not
C21_AdapterResult ==
    AdapterCalled =>
        IF run.opts.dryRun
        THEN /\ run.trace = <<>> /\ Repo = run.pre
             /\ run.ret = [isNull |-> FALSE, out |-> <<>>]
             /\ run.status = "run"
        ELSE /\ run.trace = <<run.call>> /\ Repo = Subprocess.repo
             /\ IF Subprocess.ok
                THEN /\ ~run.ret.isNull /\ run.status = "run"
                     /\ IsTrimmed(run.ret.out)
                     /\ Words(run.ret.out) = Words(Subprocess.out)
                     /\ Len(run.ret.out) <= Len(Subprocess.out)
                ELSE IF run.opts.allowFail
                THEN run.ret.isNull /\ run.status = "run"
                ELSE run.status = "exit1"

\* a dry run with allowFail of a checkout that would fail
C21_Witness ==
    /\ AdapterCalled /\ run.cmd = "runGit"
    /\ run.opts.dryRun /\ run.opts.allowFail
    /\ ~Subprocess.ok /\ ~run.ret.isNull /\ run.status = "run"

\* the listing of branches comes back without the indentation of its first
\* line and without the empty line at its end
C21_WitnessTrimmed ==
    /\ AdapterCalled /\ run.call.verb = "branch-list" /\ ~run.opts.dryRun
    /\ Subprocess.out[1][1] = " "
    /\ Len(run.ret.out) = Len(Subprocess.out) - 1

\* the workflow tool fails: null with allowFail
C21_WitnessNull ==
    /\ AdapterCalled /\ run.cmd = "runGitFlow" /\ ~run.opts.dryRun
    /\ run.opts.allowFail /\ ~Subprocess.ok /\ run.ret.isNull /\ run.status = "run"

\* the workflow tool fails: the process ends with status 1 without it
C21_WitnessExit ==
    /\ AdapterCalled /\ run.cmd = "runGitFlow" /\ ~run.opts.dryRun
    /\ ~run.opts.allowFail /\ ~Subprocess.ok /\ run.status = "exit1"

\* a run of one of the workflows that can ask on the terminal
Interactive == run.cmd \in {"release-start", "hotfix-start", "finalize", "finalize-merging"}

\* C22: with CI=true no workflow reaches a prompt, from git-flow.js as from
\* release-init.js and release-finalize.js, with --yes or without it
C22_NoPromptUnderCI ==
    (Interactive /\ run.opts.ci) => "prompt" \notin Verbs(run.trace)

\* release start from git-flow.js with CI=true and without --yes and
\* --version: parseArgs leaves opts.yes false and promptVersion asks
C22_Observed ==
    /\ run.cmd = "release-start" /\ run.opts.script = "git-flow"
    /\ run.opts.ci /\ ~run.opts.yes /\ run.opts.version = EmptyStr
    /\ "prompt" \in Verbs(run.trace)

\* the same command line from release-init.js does not ask
C22_ObservedInit ==
    /\ run.cmd = "release-start" /\ run.opts.script = "release-init"
    /\ run.opts.ci /\ run.opts.version = EmptyStr
    /\ "prompt" \notin Verbs(run.trace) /\ run.status = "exit0"

\* a command line `<verb> <type> <name> [flags]` has been run
Routed ==
    /\ run.cmd = "main"
    /\ Len(run.opts.argv) >= 3
    /\ run.opts.argv[1] \in RouterVerbs
    /\ run.opts.argv[2] \in BranchTypes
    /\ run.opts.argv[3] = sA
    /\ \A i \in 4..Len(run.opts.argv) : run.opts.argv[i] \in {tDryRun, tForce}

\* `list <type>` has been run
Listed ==
    /\ run.cmd = "main" /\ Len(run.opts.argv) = 2
    /\ run.opts.argv[1] = sList /\ run.opts.argv[2] \in BranchTypes

\* C23: for `<verb> <type> <name> [flags]` with a verb of start, finish,
\* publish, track, delete and a type of feature, release, hotfix, support,
\* parseArgs gives opts.type = <type> and opts.name = <name>, and the handler
\* is not short of an argument; `list <type>` gives opts.type = <type>
C23_RouterBindsTypeAndName ==
    /\ Routed =>
           /\ run.opts.type = run.opts.argv[2]
           /\ run.opts.name = run.opts.argv[3]
           /\ run.err # "MissingArgument"
    /\ Listed => run.opts.type = run.opts.argv[2]

\* `start feature a` in a clean repository: the type has gone to sub, the
\* name to cloneUrl, and handleStart ends with status 1 before any command
\* of the workflow tool that starts a branch
C23_Observed ==
    /\ Routed /\ run.opts.argv = <<sStart, sFeature, sA>>
    /\ run.opts.sub = sFeature /\ run.opts.cloneUrl = sA
    /\ run.opts.type = EmptyStr /\ run.opts.name = sNextRelease
    /\ run.status = "exit1" /\ run.err = "MissingArgument"
    /\ "flow-start" \notin Verbs(run.trace)
    /\ branches = run.pre.branches

\* `list feature`: the type is taken as nextArg and dropped
C23_ObservedList ==
    /\ Listed /\ run.opts.argv = <<sList, sFeature>>
    /\ run.opts.type = EmptyStr /\ run.status = "exit0"
    /\ Count(run.trace, "branch-list") = 4

\* a command line on which the type and the name do arrive
C23_ObservedByOption ==
    /\ run.cmd = "main" /\ run.opts.argv = <<sStart, sX, tType, sFeature, tName, sA>>
    /\ run.opts.type = sFeature /\ run.opts.name = sA
    /\ run.status = "exit0" /\ FullName(sFeature, sA) \in branches

\* release-finalize.js has completed with --json
Summarising == run.cmd = "finalize" /\ run.opts.json /\ run.status = "exit0"

\* C24: when finalize is run with --json and completes, the operations of
\* the JSON summary are, in order, every operation logged during the run,
\* those of the finish handler included, with the status, the branch and
\* the version
C24_SummaryHoldsEveryOperation ==
    Summarising =>
        /\ Len(run.summary) = 1
        /\ run.summary[1].status = "ok"
        /\ run.summary[1].branch = run.target
        /\ run.summary[1].version = run.version
        /\ run.summary[1].operations = run.msgs

\* a release finalized with --json: the handler has logged its steps, the
\* summary holds the one line that release-finalize.js logged itself
C24_Observed ==
    /\ Summarising /\ run.target = sRelease1100 /\ ~run.opts.dryRun
    /\ sRelease1100 \notin branches
    /\ Len(run.summary) = 1 /\ Len(run.msgs) > 1
    /\ run.summary[1].operations =
           <<[kind |-> "success", text |-> "Release/hotfix finalized."]>>

\* the edition that merges by itself logs every step through its own log
C24_ObservedMerging ==
    /\ run.cmd = "finalize-merging" /\ run.opts.json /\ run.status = "exit0"
    /\ Len(run.summary) = 1 /\ Len(run.msgs) > 1
    /\ run.summary[1].operations = run.msgs

\* the number that a segment writes, for the numbers that occur
NumberOf(seg) == CHOOSE n \in 0..200 : NumToStr(n) = seg

\* the text is x.y.z with three numbers written without a leading zero
IsCanonical(text) ==
    LET segs == Split(text, ".") IN
    /\ Len(segs) = 3
    /\ \A i \in 1..3 : \E n \in 0..200 : NumToStr(n) = segs[i]

\* the three numbers of a canonical text
TripleOf(text) == [i \in 1..3 |-> NumberOf(Split(text, ".")[i])]

\* the sign of the comparison of two triples, the first difference deciding
LexSign(p, q) ==
    IF p[1] # q[1] THEN (IF p[1] > q[1] THEN 1 ELSE -1)
    ELSE IF p[2] # q[2] THEN (IF p[2] > q[2] THEN 1 ELSE -1)
    ELSE IF p[3] # q[3] THEN (IF p[3] > q[3] THEN 1 ELSE -1)
    ELSE 0

Compared == run.cmd = "compareVersions"

\* C25: for valid versions a and b, compareVersions(a, b) is -1, 0 or 1, is
\* the sign of the comparison of the triples as numbers (1.10.0 > 1.9.0),
\* is the opposite of compareVersions(b, a), and is 0 for a = b
C25_CompareIsTheTripleOrder ==
    Compared =>
        /\ run.ret \in {-1, 0, 1}
        /\ run.ret = LexSign(TripleOf(run.a), TripleOf(run.b))
        /\ (run.a = run.b => run.ret = 0)
        /\ (run.prev.cmd = "compareVersions" /\ run.prev.a = run.b /\ run.prev.b = run.a)
               => run.ret = -run.prev.ret

\* 1.10.0 against 1.9.0 after 1.9.0 against 1.10.0
C25_Witness ==
    /\ Compared /\ run.a = VersionText(1, 10, 0) /\ run.b = VersionText(1, 9, 0)
    /\ run.prev.cmd = "compareVersions"
    /\ run.prev.a = run.b /\ run.prev.b = run.a
    /\ run.ret = 1 /\ run.prev.ret = -1

Incremented == run.cmd = "incrementVersion"

\* the version that a bump of this kind must give
Bumped(t, kind) ==
    IF kind = sMajor THEN VersionText(t[1] + 1, 0, 0)
    ELSE IF kind = sMinor THEN VersionText(t[1], t[2] + 1, 0)
    ELSE VersionText(t[1], t[2], t[3] + 1)

\* C26: for a valid version x.y.z, major gives (x+1).0.0, minor x.(y+1).0,
\* patch x.y.(z+1); the result is a valid version greater than x.y.z, and a
\* patch bump of a patch bump is x.y.(z+2)
C26_BumpArithmetic ==
    (Incremented /\ run.kind \in {sMajor, sMinor, sPatch}) =>
        /\ run.ret = Bumped(TripleOf(run.a), run.kind)
        /\ IsCanonical(run.ret)
        /\ LexSign(TripleOf(run.ret), TripleOf(run.a)) = 1
        /\ (/\ run.kind = sPatch /\ run.prev.cmd = "incrementVersion"
            /\ run.prev.kind = sPatch /\ run.prev.ret = run.a)
               => LET t == TripleOf(run.prev.a) IN
                  run.ret = VersionText(t[1], t[2], t[3] + 2)

\* 9.99.99 bumped twice by patch: 9.99.101
C26_Witness ==
    /\ Incremented /\ run.kind = sPatch
    /\ run.prev.cmd = "incrementVersion" /\ run.prev.kind = sPatch
    /\ run.prev.a = VersionText(9, 99, 99) /\ run.prev.ret = run.a
    /\ run.ret = VersionText(9, 99, 101)

\* a minor bump resets the patch number
C26_WitnessMinor ==
    /\ Incremented /\ run.kind = sMinor /\ run.a = VersionText(1, 9, 10)
    /\ run.ret = VersionText(1, 10, 0)

Parsed == run.cmd = "parseVersion"

\* C27: parse returns null for every string that fails the canonical
\* pattern, 1.02.3 and 1.2 among them, and the three numbers for every
\* string that matches
C27_ParseRejectsNonCanonical ==
    Parsed =>
        IF IsCanonical(run.a)
        THEN /\ ~run.ret.isNull
             /\ <<run.ret.value.major, run.ret.value.minor, run.ret.value.patch>>
                    = TripleOf(run.a)
        ELSE run.ret.isNull

\* parseVersion("1.02.3") is {major: 1, minor: 2, patch: 3}
C27_Observed ==
    /\ Parsed /\ run.a = s1023 /\ ~IsCanonical(run.a)
    /\ ~run.ret.isNull
    /\ run.ret.value = [major |-> 1, minor |-> 2, patch |-> 3]

\* validateVersion is the function that knows the pattern
C27_ObservedValidate ==
    /\ run.cmd = "validateVersion" /\ run.a = s1023 /\ run.ret = FALSE
    /\ run.prev.cmd = "validateVersion" /\ run.prev.a = VersionText(1, 10, 0)
    /\ run.prev.ret = TRUE

\* C28 as it is stated: a kind outside major, minor, patch, undefined and
\* empty included, returns the version unchanged
C28_UnknownKindIsNoOp ==
    (Incremented /\ run.kind \notin {sMajor, sMinor, sPatch}) => run.ret = run.a

\* C28: a kind that, in lower case, is outside major, minor, patch,
\* undefined and empty included, returns the version unchanged
C28_UnknownKindIsNoOpAnyCase ==
    (Incremented /\ ToLowerCase(run.kind) \notin {sMajor, sMinor, sPatch})
        => run.ret = run.a

\* the kind build, and no kind at all
C28_Witness ==
    /\ Incremented /\ run.kind = <<"b", "u", "i", "l", "d">> /\ run.ret = run.a
    /\ run.prev.cmd = "incrementVersion" /\ run.prev.kind = EmptyStr
    /\ run.prev.ret = run.prev.a

\* MAJOR is taken as major
C28_WitnessUpperCase ==
    /\ Incremented /\ run.kind = <<"M", "A", "J", "O", "R">> /\ run.a = VersionText(1, 9, 0)
    /\ run.ret = VersionText(2, 0, 0)

\* hotfix start, not a dry run, with every precondition met and nothing
\* failing around it: the workflow tool has created the branch
HotfixStarted ==
    /\ run.cmd = "hotfix-start" /\ ~run.opts.dryRun /\ run.env = EnvAllOk
    /\ "flow-start" \in Verbs(run.trace)

\* C29: hotfix start writes the resolved version into the first line of
\* version.txt after the branch is created and before the commit `chore:
\* bump version to <version> for hotfix`, and the run completes
C29_HotfixStartWritesVersion ==
    HotfixStarted =>
        /\ versionTxt.lines[1] = run.version
        /\ Count(run.trace, "write-version") = 1
        /\ FirstOf(run.trace, "flow-start") < FirstOf(run.trace, "write-version")
        /\ "commit" \in Verbs(run.trace)
        /\ FirstOf(run.trace, "write-version") < FirstOf(run.trace, "commit")
        /\ run.status = "exit0"

\* the branch hotfix/nextRelease is there, version.txt is as it was, nothing
\* has written it, and the commit of a clean tree has ended the run
C29_Observed ==
    /\ HotfixStarted /\ run.pre.versionTxt.lines[1] = s190 /\ run.version = s191
    /\ FullName(sHotfix, sNextRelease) \in branches
    /\ versionTxt = run.pre.versionTxt
    /\ "write-version" \notin Verbs(run.trace)
    /\ run.trace[Len(run.trace)].verb = "commit"
    /\ run.status = "exit1" /\ run.err = "SubprocessFailure"

Updated == run.cmd = "updateVersionFile" /\ run.pre.versionTxt.exists

\* C30: outside of a dry run updateVersionFile(V) replaces the first line of
\* version.txt with V and keeps every line after it; a readVersion() right
\* afterwards returns V; in a dry run the file is left as it was
C30_FirstLineOnly ==
    /\ Updated =>
           IF run.dryRun
           THEN ~run.applied /\ versionTxt = run.pre.versionTxt
           ELSE /\ run.applied /\ versionTxt.exists
                /\ Len(versionTxt.lines) = Len(run.pre.versionTxt.lines)
                /\ versionTxt.lines[1] = run.version
                /\ \A i \in 2..Len(versionTxt.lines) :
                       versionTxt.lines[i] = run.pre.versionTxt.lines[i]
    /\ (/\ run.cmd = "readVersion" /\ run.prev.cmd = "updateVersionFile"
        /\ run.prev.applied)
           => run.status = "run" /\ run.ret = run.prev.version

\* 1.10.0 written above the notes of a file whose first line was 1.9.0, and
\* read back
C30_Witness ==
    /\ run.cmd = "readVersion" /\ run.prev.cmd = "updateVersionFile"
    /\ run.prev.applied /\ run.prev.version = s1100
    /\ run.prev.pre.versionTxt.lines = <<s190, sNotes, EmptyStr>>
    /\ versionTxt.lines = <<s1100, sNotes, EmptyStr>>
    /\ run.ret = s1100

\* a file whose first line was not a version: readVersion failed before the
\* update and returns the version after it
C30_WitnessRepaired ==
    /\ run.cmd = "readVersion" /\ run.ret = s200
    /\ run.prev.cmd = "updateVersionFile" /\ run.prev.applied
    /\ run.prev.pre.versionTxt.lines[1] = sNotes

\* a dry run
C30_WitnessDryRun ==
    /\ Updated /\ run.dryRun /\ ~run.applied
    /\ versionTxt = run.pre.versionTxt /\ versionTxt.lines[1] # run.version

SyncCompleted == run.cmd = "sync" /\ run.status = "exit0"

\* C31: after a sync that completes, the branch checked out is the one that
\* was checked out when the sync started, whichever branch that was
C31_SyncRestoresBranch == SyncCompleted => head = run.pre.head

\* a sync started on main and completed: develop is left checked out
C31_Observed ==
    /\ SyncCompleted /\ ~run.opts.dryRun
    /\ run.pre.head = sMain /\ head = sDevelop
    /\ Cmd("checkout", <<sMain>>) \in SeqToSet(run.trace)
    /\ run.trace[Len(run.trace)].verb # "checkout"

\* a sync started on a feature branch and completed: the branch is restored
C31_ObservedRestored ==
    /\ SyncCompleted /\ ~run.opts.dryRun
    /\ run.pre.head = FullName(sFeature, sA) /\ head = run.pre.head
    /\ Cmd("checkout", <<FullName(sFeature, sA)>>) \in SeqToSet(run.trace)

DryRunStart == run.cmd \in {"release-start", "hotfix-start"} /\ run.opts.dryRun

sDryRunCompleted ==
    [kind |-> "warn", text |-> "Dry-run completed. No changes were applied."]

\* version.txt, CHANGELOG.md and the branches are as before, nothing was
\* committed or pushed, and neither file was reported as written
NothingApplied ==
    /\ versionTxt = run.pre.versionTxt
    /\ changelog = run.pre.changelog
    /\ branches = run.pre.branches
    /\ Verbs(run.trace) \cap {"flow-start", "commit", "push", "write-version",
                              "write-changelog", "write-tree"} = {}
    /\ run.changed = {}

\* C32: release start and hotfix start with --dry-run leave version.txt and
\* CHANGELOG.md as they were, create no branch and no commit and push
\* nothing; updateVersionFile and appendChangelog return false, and the run
\* ends with the warning "Dry-run completed. No changes were applied."
C32_DryRunStartAppliesNothing ==
    DryRunStart =>
        /\ NothingApplied
        /\ run.status = "exit0" =>
               run.msgs[Len(run.msgs)] = sDryRunCompleted

\* the part of C32 that is about the repository, for both commands
C32_DryRunStartFrame == DryRunStart => NothingApplied

\* the part of C32 that is about the warning, for release start
C32_DryRunReleaseWarns ==
    (DryRunStart /\ run.cmd = "release-start" /\ run.status = "exit0") =>
        run.msgs[Len(run.msgs)] = sDryRunCompleted

\* a dry run of hotfix start with --push that completes: its last line is
\* "Hotfix initialized" and the warning is not among its lines
C32_Observed ==
    /\ DryRunStart /\ run.cmd = "hotfix-start" /\ run.status = "exit0"
    /\ run.opts.push /\ NothingApplied
    /\ run.msgs[Len(run.msgs)] = [kind |-> "success", text |-> "Hotfix initialized"]
    /\ sDryRunCompleted \notin SeqToSet(run.msgs)
    /\ [kind |-> "dry-run", text |-> "push"] \in SeqToSet(run.msgs)

\* a dry run of release start with --push that completes with the warning
C32_ObservedRelease ==
    /\ DryRunStart /\ run.cmd = "release-start" /\ run.status = "exit0"
    /\ run.opts.push /\ ~run.opts.noChangelog /\ NothingApplied
    /\ run.msgs[Len(run.msgs)] = sDryRunCompleted
    /\ [kind |-> "dry-run", text |-> "would update CHANGELOG.md"] \in SeqToSet(run.msgs)

\* release start or hotfix start, not a dry run, that got as far as creating
\* its branch
StartReachedFiles ==
    /\ run.cmd \in {"release-start", "hotfix-start"} /\ ~run.opts.dryRun
    /\ branches # run.pre.branches

sNoFilesChanged == [kind |-> "warn", text |-> "No files were changed (version/changelog)"]

FilesAsBefore == versionTxt = run.pre.versionTxt /\ changelog = run.pre.changelog

\* C33: a release or hotfix start, not a dry run, after which neither
\* version.txt nor CHANGELOG.md differs from before reports the warning "No
\* files were changed (version/changelog)"; a run in which one of them
\* changed does not
C33_NoOpStartWarns ==
    StartReachedFiles => (sNoFilesChanged \in SeqToSet(run.msgs) <=> FilesAsBefore)

\* the half of C33 about runs that changed a file
C33_ChangedStartIsQuiet ==
    (StartReachedFiles /\ ~FilesAsBefore) => sNoFilesChanged \notin SeqToSet(run.msgs)

\* the warning is reported by no run at all that is not a dry run
C33_WarningNeverReported ==
    (run.cmd \in {"release-start", "hotfix-start"} /\ ~run.opts.dryRun)
        => sNoFilesChanged \notin SeqToSet(run.msgs)

\* release start --version 1.9.0 --no-changelog on version.txt 1.9.0: the
\* file is written with what it held, versionChanged is true, and the commit
\* of an unchanged tree ends the run before any summary
C33_Observed ==
    /\ StartReachedFiles /\ run.cmd = "release-start" /\ FilesAsBefore
    /\ run.opts.version = s190 /\ run.opts.noChangelog /\ run.env = EnvAllOk
    /\ "write-version" \in Verbs(run.trace) /\ "version" \in run.changed
    /\ run.trace[Len(run.trace)].verb = "commit"
    /\ run.status = "exit1"
    /\ sNoFilesChanged \notin SeqToSet(run.msgs)

\* a release start that changed both files and completed without the warning
C33_ObservedChanged ==
    /\ StartReachedFiles /\ run.cmd = "release-start" /\ run.status = "exit0"
    /\ versionTxt # run.pre.versionTxt /\ changelog # run.pre.changelog
    /\ run.changed = {"version", "changelog"}
    /\ sNoFilesChanged \notin SeqToSet(run.msgs)

StartSucceededForReal ==
    /\ run.cmd \in {"release-start", "hotfix-start"} /\ ~run.opts.dryRun
    /\ run.status = "exit0"

\* C34: after every release or hotfix start that succeeds and is not a dry
\* run, the first line of version.txt is strictly greater than the version
\* it held before, whatever --version and --bump were, an unrecognised kind
\* of bump included
C34_StartAdvancesVersion ==
    StartSucceededForReal =>
        compareVersions(versionTxt.lines[1],
                        FirstLineTrimmed(run.pre.versionTxt.lines)) > 0

\* what the check of the resolved version does enforce: the version is not
\* lowered
C34_StartNeverLowersVersion ==
    StartSucceededForReal =>
        compareVersions(versionTxt.lines[1],
                        FirstLineTrimmed(run.pre.versionTxt.lines)) >= 0

\* release start --bump build on 1.9.0: the release of 1.9.0 is started, the
\* changelog gets its section, the commit succeeds and version.txt still
\* holds 1.9.0
C34_Observed ==
    /\ StartSucceededForReal /\ run.cmd = "release-start"
    /\ run.opts.bump = sBuild /\ run.opts.version = EmptyStr
    /\ run.pre.versionTxt.lines[1] = s190 /\ versionTxt.lines[1] = s190
    /\ FullName(sRelease, sV \o s190) \in branches \ run.pre.branches
    /\ "commit" \in Verbs(run.trace)

\* the same with --version 1.9.0
C34_ObservedVersion ==
    /\ StartSucceededForReal /\ run.opts.version = s190
    /\ run.pre.versionTxt.lines[1] = s190 /\ versionTxt.lines[1] = s190

\* a start that does advance the version
C34_ObservedAdvanced ==
    /\ StartSucceededForReal /\ run.opts.bump = sMajor
    /\ run.pre.versionTxt.lines[1] = s190 /\ versionTxt.lines[1] = s200

\* the branch checked out when the i-th command of the run was issued: the
\* one of the last checkout before it, or the one the run started on
HeadWhen(i) ==
    LET before == {j \in 1..(i - 1) : run.trace[j].verb = "checkout"} IN
    IF before = {} THEN run.pre.head
    ELSE run.trace[CHOOSE j \in before : \A k \in before : k <= j].args[1]

\* the branch a finish is finishing
FinishedBranch ==
    IF run.cmd = "hotfix-finish-changelog"
    THEN FullName(sHotfix, VName(run.opts.name, run.opts.tag))
    ELSE run.target

ChangelogWrites == {i \in 1..Len(run.trace) : run.trace[i].verb = "write-changelog"}

ChangelogOnFinishedBranch ==
    \A i \in ChangelogWrites :
        /\ HeadWhen(i) = FinishedBranch
        /\ \A j \in (i + 1)..Len(run.trace) :
               run.trace[j].verb = "commit" /\ "commit" \notin Verbs(SubSeq(run.trace, i, j - 1))
                   => HeadWhen(j) = FinishedBranch

\* C35: in a release or hotfix finish the changelog is written, and the
\* commit `docs: update changelog for v<version>` is made, while the branch
\* being finished is checked out, with the pulls and without them
C35_ChangelogOnFinishedBranch ==
    run.cmd \in {"finalize", "finalize-merging", "hotfix-finish-changelog"}
        => ChangelogOnFinishedBranch

\* the edition of the finalizer that checks the target out before
\* ensureChangelog does write on the branch
C35_MergingEditionWritesOnBranch ==
    run.cmd = "finalize-merging" => ChangelogOnFinishedBranch

\* a finish of release/v1.10.0 with the pulls, started on that branch: the
\* pull of main is the last checkout, and the changelog is written and
\* committed on main, before the workflow tool merges the release branch
C35_Observed ==
    /\ run.cmd = "finalize" /\ ~run.opts.offline /\ ~run.opts.dryRun
    /\ run.status = "exit0" /\ run.env = EnvAllOk
    /\ run.target = sRelease1100 /\ run.pre.head = sRelease1100
    /\ \E i \in ChangelogWrites :
           /\ HeadWhen(i) = sMain
           /\ run.trace[i + 2].verb = "commit" /\ HeadWhen(i + 2) = sMain
           /\ FirstOf(run.trace, "flow-finish") > i + 2

\* an offline finish started on develop: nothing is checked out and the
\* changelog is written on develop
C35_ObservedOffline ==
    /\ run.cmd = "finalize" /\ run.opts.offline /\ ~run.opts.dryRun
    /\ run.target = sRelease1100 /\ run.pre.head # sRelease1100
    /\ "checkout" \notin Verbs(run.trace)
    /\ \E i \in ChangelogWrites : HeadWhen(i) = run.pre.head

\* the merging edition writing on the branch it has checked out
C35_ObservedMerging ==
    /\ run.cmd = "finalize-merging" /\ ~run.opts.offline /\ run.status = "exit0"
    /\ run.pre.head # run.target
    /\ \E i \in ChangelogWrites : HeadWhen(i) = run.target

\* git pull --ff-only was run and ended with a status other than zero
PullFailed == "pull" \in Verbs(run.trace) /\ ~run.env.remoteOk

\* C36: when the fast-forward-only pull of the base branch (start) or of the
\* branch and its targets (finish) fails, the run aborts before the workflow
\* tool's start or finish is issued
C36_FailedPullStopsWorkflow ==
    (/\ run.cmd \in {"finish", "release-start", "release-finish", "hotfix-start",
                     "hotfix-finish"}
     /\ PullFailed)
        => Verbs(run.trace) \cap {"flow-start", "flow-finish"} = {}

\* a finish of feature/a whose two pulls fail: the workflow tool's finish is
\* issued after them, the branch is merged and the run ends with status 0
C36_Observed ==
    /\ run.cmd = "finish" /\ PullFailed /\ ~run.opts.push
    /\ Count(run.trace, "pull") = 2
    /\ \A i \in 1..Len(run.trace) :
           run.trace[i].verb = "pull" => i < FirstOf(run.trace, "flow-finish")
    /\ "flow-finish" \in Verbs(run.trace)
    /\ FullName(run.opts.type, run.opts.name) \in run.pre.branches \ branches
    /\ run.status = "exit0"

\* a release start whose pull of develop fails: the branch is started
C36_ObservedStart ==
    /\ run.cmd = "release-start" /\ PullFailed
    /\ FirstOf(run.trace, "pull") < FirstOf(run.trace, "flow-start")
    /\ "flow-start" \in Verbs(run.trace)
    /\ branches # run.pre.branches

\* the workflow tool's finish commands of the run that carry -T <tag>
TaggedFinishes ==
    {i \in 1..Len(run.trace) :
        run.trace[i].verb = "flow-finish" /\ "-T" \in run.trace[i].flags}

\* C37: whenever finish gets past the check for a duplicate tag, the tag it
\* hands to the workflow tool with -T is not among the tags of the
\* repository, with or without a leading v in what the user passed
C37_HandedTagIsFree ==
    run.cmd \in {"finish", "release-finish", "hotfix-finish"} =>
        \A i \in TaggedFinishes : run.trace[i].args[3] \notin run.pre.tags

\* --tag 1.9.0 in a repository with the tag 1.9.0: the check looked for
\* v1.9.0, and the workflow tool is handed -T 1.9.0 and fails on it
C37_Observed ==
    /\ run.cmd = "finish" /\ run.env = EnvAllOk
    /\ run.pre.tags = {s190}
    /\ Cmd("tag-l", <<>>) \in SeqToSet(run.trace)
    /\ \E i \in TaggedFinishes :
           /\ run.trace[i].args[3] = s190
           /\ i = Len(run.trace)
    /\ run.status = "exit1" /\ run.err = "SubprocessFailure"

\* --tag v1.9.0 in the same repository: the check finds nothing either, and
\* v1.9.0 is free
C37_ObservedFree ==
    /\ run.cmd = "finish" /\ run.env = EnvAllOk /\ run.pre.tags = {s190}
    /\ \E i \in TaggedFinishes : run.trace[i].args[3] = sV190
    /\ run.status = "exit0" /\ sV190 \in tags

\* the release and hotfix branches that the commands of the run name
BranchesWorkedOn ==
    ({run.trace[i].args[1] :
         i \in {j \in 1..Len(run.trace) :
                   run.trace[j].verb \in {"show-ref", "checkout", "pull", "branch-D"}}}
     \cup {FullName(run.trace[i].args[1], run.trace[i].args[2]) :
              i \in {j \in 1..Len(run.trace) : run.trace[j].verb = "flow-finish"}})
    \ {sMain, sDevelop}

\* C38: in finalize the branch that is looked up, pulled, handed to the
\* workflow tool's finish and deleted is the target branch that was selected
\* or given with --branch, for every release/* or hotfix/* name that ends in
\* v<x.y.z>
C38_FinalizeWorksOnTarget ==
    run.cmd = "finalize" => BranchesWorkedOn \subseteq {run.target}

\* release/rc-v1.10.0 selected at the menu, beside release/v1.10.0: the
\* finish is handed v1.10.0, and release/v1.10.0 is merged and deleted while
\* the selected branch stays
C38_Observed ==
    /\ run.cmd = "finalize" /\ run.target = sReleaseRc1100
    /\ run.menu = <<sReleaseRc1100, sRelease1100>>
    /\ BranchesWorkedOn = {sRelease1100}
    /\ "flow-finish" \in Verbs(run.trace)
    /\ sRelease1100 \in run.pre.branches \ branches
    /\ sReleaseRc1100 \in branches
    /\ run.status = "exit0"

\* hotfix/v1.9.1 as the target: the branch looked up is hotfix/1.9.1, which
\* is not there, and the run ends with an error
C38_ObservedHotfix ==
    /\ run.cmd = "finalize" /\ run.target = sHotfix191
    /\ BranchesWorkedOn = {FullName(sHotfix, s191)}
    /\ run.status = "exit1" /\ run.err = "BranchNotFound"

\* release/v1.10.0 as the target: it is the branch worked on
C38_ObservedSame ==
    /\ run.cmd = "finalize" /\ run.target = sRelease1100 /\ run.status = "exit0"
    /\ BranchesWorkedOn = {sRelease1100} /\ sRelease1100 \notin branches

\* the file has a section for exactly this version: a line `## v<version>`
\* that ends there or goes on with a space
SectionFor(file, version) ==
    /\ file.exists
    /\ \E i \in 1..Len(file.lines) :
           \/ file.lines[i] = sHeading \o version
           \/ StartsWith(file.lines[i], sHeading \o version \o <<" ">>)

\* C39: appendChangelog(V) is skipped only when the changelog has a section
\* for exactly V: outside of a dry run, a file with a section for another
\* version W and none for V gets V's section put first, and the call
\* returns true
C39_SkippedOnlyForSameVersion ==
    (Appended /\ ~run.opts.dryRun /\ ~SectionFor(run.pre.changelog, run.opts.version)) =>
        /\ run.applied
        /\ StartsWith(changelog.lines[1], sHeading \o run.opts.version \o <<" ">>)
        /\ SectionFor(changelog, run.opts.version)

\* 1.1.1 after 1.1.10: `## v1.1.1` is found inside `## v1.1.10 - ..`, the
\* call returns false and the file has no section for 1.1.1
C39_Observed ==
    /\ Appended /\ ~run.opts.dryRun /\ run.opts.version = s111
    /\ SectionFor(run.pre.changelog, s1110) /\ ~SectionFor(run.pre.changelog, s111)
    /\ ~run.applied /\ changelog = run.pre.changelog
    /\ ~SectionFor(changelog, s111)
    /\ [kind |-> "info", text |-> "Changelog already contains this version"]
           \in SeqToSet(run.msgs)

\* 1.1.10 after 1.1.1: the section is written
C39_ObservedOtherOrder ==
    /\ Appended /\ ~run.opts.dryRun /\ run.opts.version = s1110
    /\ SectionFor(run.pre.changelog, s111) /\ run.applied
    /\ SectionFor(changelog, s1110) /\ SectionFor(changelog, s111)

\* sync has put the uncommitted changes of the user on the stash
SyncStashed ==
    /\ run.cmd = "sync" /\ run.pre.dirty
    /\ Cmd("stash-push", <<>>) \in SeqToSet(run.trace)

\* C40: whenever sync has stashed uncommitted changes at its start, the
\* stash is popped again before the process ends, on every path: a failed
\* merge of the main-line branch into develop, a failed checkout and a
\* missing develop included
C40_StashPoppedBeforeExit ==
    SyncStashed =>
        /\ Cmd("stash-pop", <<>>) \in SeqToSet(run.trace)
        /\ stash = run.pre.stash
        /\ dirty

\* the merge of main into develop fails: the process exits with status 1
\* and the changes of the user are on the stash
C40_Observed ==
    /\ SyncStashed /\ ~run.opts.dryRun
    /\ run.status = "exit1" /\ run.err = "MergeFailed"
    /\ run.trace[Len(run.trace)].verb = "merge"
    /\ "stash-pop" \notin Verbs(run.trace)
    /\ stash = run.pre.stash + 1 /\ ~dirty

\* origin has master and the repository has not: the checkout of the base
\* fails right after the stash
C40_ObservedCheckout ==
    /\ SyncStashed /\ run.status = "exit1" /\ run.err = "SubprocessFailure"
    /\ run.trace[Len(run.trace)] = Cmd("checkout", <<sMaster>>)
    /\ stash = run.pre.stash + 1 /\ ~dirty

\* a sync that completes pops the stash
C40_ObservedPopped ==
    /\ SyncStashed /\ run.status = "exit0"
    /\ run.trace[Len(run.trace)] = Cmd("stash-pop", <<>>)
    /\ stash = run.pre.stash /\ dirty

====
